---- MODULE Spec2Model ----
(***************************************************************************)
(* A model of the dependency resolver of shrinkwrap (src/index.js, the     *)
(* revision of lines 1-502): Shrinkwrap.prototype.resolve with its queue,  *)
(* queue.push and queue.worker closures, release/releases with the         *)
(* instance cache, optimize, dedupe, get and destroy; of Module            *)
(* (src/module.js) with clone, pinned and toJSON; and of the registry      *)
(* client's releases and release (src/registry.js); and of ls with its     *)
(* async.queue worker in the revision of src/unnamed/part_000.             *)
(*                                                                         *)
(* JavaScript runs every handler to completion, so one action is one       *)
(* handler: the resolve call itself, and the callback of one registry      *)
(* request.  A handler runs the worker until the next registry request is  *)
(* sent, the completion callback is delivered, or it throws.               *)
(***************************************************************************)
EXTENDS Integers, Sequences, FiniteSets, TLC

\* ------------------------------------------------------------------ bounds
\* Package names and published versions of the modelled registry.
Names == {"a", "b"}
Versions == {1, 2}
\* A root manifest declares at most MaxRootDeps entries over all its groups.
MaxRootDeps == 2
\* The limit option is drawn from 1..MaxLimit.
MaxLimit == 1
\* The async.queue of ls runs at most 1..MaxWorkers tasks at a time.
MaxWorkers == 2
\* resolve is called at most MaxResolves times on the instance.
MaxResolves == 2
\* destroy is called at most MaxDestroys times on the instance.
MaxDestroys == 2
\* The Module handed to optimize has at most MaxDependents dependents.
MaxDependents == 3
\* optimize is called at most MaxOptimizes times on the Module.
MaxOptimizes == 2
\* The registry client is asked for at most MaxReleases releases of a package.
MaxReleases == 2
\* At most MaxModules Modules are made, the first by new Module, the rest by
\* clone, and at most MaxMutations times one of them is changed afterwards.
MaxModules == 2
MaxMutations == 2

\* ---------------------------------------------------------------- semver
\* The version string of a published version.
VersionString(v) == IF v = 1 THEN "1.0.0" ELSE IF v = 2 THEN "2.0.0" ELSE "3.0.0"

\* The ranges manifests use: the wildcard and one exact version.
Ranges == {"*", VersionString(1)}

IsVersion(range) == \E v \in Versions : range = VersionString(v)

Satisfies(v, range) == range = "*" \/ range = VersionString(v)

\* semver.maxSatisfying: the highest version in the range, 0 (null) if none.
maxSatisfying(versions, range) ==
  LET ok == {v \in versions : Satisfies(v, range)}
  IN  IF ok = {} THEN 0 ELSE CHOOSE v \in ok : \A u \in ok : u <= v

\* semver.eq(a, b) inside dedupe's try/catch: eq throws on a string that is
\* no version, and the catch returns, so the pair counts as not equal.
semverEq(a, b) == IsVersion(a) /\ IsVersion(b) /\ a = b

\* ------------------------------------------------------------- manifests
\* Shrinkwrap.dependencies, in its order.
Dependencies ==
  <<"dependencies", "devDependencies", "peerDependencies", "optionalDependencies">>

Groups == {Dependencies[i] : i \in DOMAIN Dependencies}

\* A dependency group maps names to ranges; a manifest maps the groups it has
\* to their value (a group that is absent is not in its domain).
GroupValues == UNION {[D -> Ranges] : D \in SUBSET Names}

EntryCount(m) ==
  LET RECURSIVE Sum(_)
      Sum(G) == IF G = {} THEN 0
                ELSE LET g == CHOOSE x \in G : TRUE
                     IN  Cardinality(DOMAIN m[g]) + Sum(G \ {g})
  IN  Sum(DOMAIN m)

\* Manifests without empty groups, and the same with every group present.
ManifestsOver(G, max) ==
  {m \in UNION {[D -> GroupValues] : D \in SUBSET G} :
     /\ EntryCount(m) <= max
     /\ \A g \in DOMAIN m : DOMAIN m[g] # {}}

Normalised(m) == [g \in Groups |-> IF g \in DOMAIN m THEN m[g] ELSE <<>>]

\* The root manifests: no group, only empty groups, or up to MaxRootDeps
\* entries in the groups that have any.
RootManifests == ManifestsOver(Groups, MaxRootDeps) \cup {Normalised(<<>>)}

\* The groups a published release declares entries in.
ReleaseGroups == {"dependencies", "devDependencies"}

\* The entries a published release declares: any entry of dependencies, and
\* the wildcard entries of devDependencies.
ReleaseEntries ==
  {e \in ReleaseGroups \X Names \X Ranges : e[1] = "devDependencies" => e[3] = "*"}

\* A published release declares nothing or one entry.
ReleaseManifests ==
  {<<>>} \cup {[g \in {e[1]} |-> [n \in {e[2]} |-> e[3]]] : e \in ReleaseEntries}

\* The versions whose release can declare an entry; the release of any other
\* version of a package declares nothing.
Declaring == {1}

\* The manifests the release of a version can have.
ReleaseManifestsOf(version) ==
  IF version \in Declaring THEN ReleaseManifests ELSE {<<>>}

\* ------------------------------------------------------------ the values
Root == "<root>"
Undefined == "undefined"
\* The errors the registry client calls back with (src/registry.js get).
RegistryErrors == {"ENETWORK", "ESTATUS"}

\* name +'@'+ range
Id(name, range) == name \o "@" \o range

NoSpec == [name |-> "", range |-> "", _id |-> "", parents |-> <<>>, depth |-> 0]

NoDependencies == [defined |-> FALSE, map |-> <<>>]

VARIABLES
  production,   \* options.production
  limit,        \* options.limit
  source,       \* the root manifest handed to resolve
  cache,        \* shrinkwrap.cache: [live, keys]; not live is null
  registry,     \* shrinkwrap.registry is set (TRUE) or null (FALSE)
  docs,         \* the registry's answer for the names fetched so far
  manifests,    \* the manifests of the releases selected so far
  calls,        \* one record per resolve call: its queue and what it delivered
  options,      \* the options the constructor does not copy to the instance
  gets,         \* the get call: its state and the invocations of its fn
  destroyed,    \* what the destroy calls made from outside returned, in order
  graph,        \* the nodes optimize is called on, and what its calls left
  packages,     \* a registry document, and what release is asked of it
  modules,      \* the Modules made by new Module and clone, and their arrays
  handed,       \* a manifest of any shape handed to queue, and what came of it
  ls            \* a run of ls, the listing of the revision with async.queue

\* What the functions that are called on their own work on.
apart == <<graph, packages, modules, handed, ls>>

vars == <<production, limit, source, cache, registry, docs, manifests, calls,
          options, gets, destroyed, graph, packages, modules, handed, ls>>

\* A world is what one handler reads and writes: w.q is the queue of the
\* resolve call it belongs to, the rest is the instance and the registry.
\*   w.q.todolist, w.q.dependencytree, w.q.errors, w.q.data   the queue
\*   w.q.state      "active", "done" (fn was called), "thrown" (a TypeError)
\*   w.q.inflight   the specs whose registry request is out
\*   w.q.callbacks  the invocations of fn, in order: the arguments err, tree
\*                  and errors, and what the instance and the root node were
\*                  at that moment (cache, registry, root)
\*   w.q.pushed     the ids queue.push was called with
\*   w.q.released   the ids release() was invoked with, in order
\*   w.q.results    how each of these lookups called back: "found" with the
\*                  version, "absent", or "error" with the error
\*   w.q.fetched    the names requested from the registry, in order
\*   w.q.given      the manifest resolve was called with, before dedupe
\*   w.q.origins    the ids queue.push was called with and the group of each
\*   w.q.optimized  the optimize calls: the Module and whether it lost a dependent
\*   w.q.pushes     the queue.push calls: the spec and the todo list around it

\* ------------------------------------------------------------ sequences
\* arr.filter(unique): keep the first occurrence of every value.
unique(arr) ==
  LET RECURSIVE Keep(_, _)
      Keep(i, acc) ==
        IF i > Len(arr) THEN acc
        ELSE IF \E j \in 1..Len(acc) : acc[j] = arr[i] THEN Keep(i + 1, acc)
        ELSE Keep(i + 1, Append(acc, arr[i]))
  IN  Keep(1, <<>>)

\* arr.indexOf(value), 1-based; 0 when absent.
indexOf(arr, value) ==
  IF \E i \in 1..Len(arr) : arr[i] = value
  THEN CHOOSE i \in 1..Len(arr) : arr[i] = value /\ \A j \in 1..(i - 1) : arr[j] # value
  ELSE 0

\* arr.splice(i, 1) for a 1-based i; splice(-1, 1) removes the last element.
splice(arr, i) ==
  LET at == IF i = 0 THEN Len(arr) ELSE i
  IN  [k \in 1..(Len(arr) - 1) |-> IF k < at THEN arr[k] ELSE arr[k + 1]]

\* The orders Object.keys can list a set of keys in (the insertion order of
\* the manifest's JSON document, which the mapping does not fix).
Orders(S) ==
  {s \in [1..Cardinality(S) -> S] : \A i, j \in DOMAIN s : s[i] = s[j] => i = j}

\* -------------------------------------------------------------- optimize
\* A reference to an object of the graph: a node (the root object or a
\* Module) or the dependencies map of a node.
NodeRef(node) == [kind |-> "node", of |-> node]
MapRef(node) == [kind |-> "dependencies", of |-> node]
\* The reference that is undefined.
NoRef == [kind |-> "undefined", of |-> ""]

\* The object with the properties of a node: queue.data or a Module.
NodeObject(q, node) ==
  IF node = Root THEN q.data
  ELSE IF node \in DOMAIN q.dependencytree THEN q.dependencytree[node]
  ELSE <<>>

\* node.parent, for a reference to an object.  resolve gives no object a
\* parent property: queue.data has name, version and dependencies, a clone has
\* the Module fields and the overrides parents and depth.  A dependencies map
\* has the names of the packages as its properties, and none is called parent.
NodeParent(q, ref) ==
  IF ref.kind = "node" /\ "parent" \in DOMAIN NodeObject(q, ref.of)
  THEN NodeObject(q, ref.of).parent
  ELSE NoRef

\* The dependencies map of a node of the graph, [defined, map].
NodeDependencies(q, node) ==
  IF node = Root THEN q.data.dependencies
  ELSE IF node \in DOMAIN q.dependencytree THEN q.dependencytree[node].dependencies
  ELSE NoDependencies

\* The test of optimize.available on one property that holds an object: an
\* object whose name is not the name of the dependency passes, and so does
\* one with its version; undefined fails.  A dependencies map has no name,
\* and the root object has a name that no package has.
Passes(q, ref, name, version) ==
  IF ref = NoRef THEN FALSE
  ELSE IF ref.kind = "node" /\ ref.of \in DOMAIN q.dependencytree
  THEN \/ q.dependencytree[ref.of].name # name
       \/ q.dependencytree[ref.of].version = version
  ELSE TRUE

\* optimize.available(dependencies): every own property of the object it is
\* given passes the test.  It is given node.parent: the properties of a
\* dependencies map are its Modules; those of a Module that count are its
\* depth, which fails when it is 0, and its parent (its strings and arrays
\* pass); those of the root object are its strings, its dependencies and its
\* parent.
available(q, ref, name, version) ==
  IF ref = NoRef THEN FALSE
  ELSE IF ref.kind = "dependencies"
  THEN LET map == NodeDependencies(q, ref.of).map
       IN  \A key \in DOMAIN map : Passes(q, NodeRef(map[key]), name, version)
  ELSE LET object == NodeObject(q, ref.of)
       IN  /\ ref.of # Root => object.depth # 0
           /\ "parent" \in DOMAIN object => Passes(q, object.parent, name, version)

\* optimize.parent(dependent): the objects reached through the parent
\* properties, up to the first that is not available.
parent(q, dependent, name, version) ==
  LET RECURSIVE Walk(_, _)
      Walk(node, result) ==
        IF NodeParent(q, node) = NoRef THEN result
        ELSE IF ~available(q, NodeParent(q, node), name, version) THEN result
        ELSE Walk(NodeParent(q, node), Append(result, NodeParent(q, node)))
  IN  Walk(NodeRef(dependent), <<>>)

\* optimize that removes no dependent.
optimizeKeepsDependents(q, id) ==
  [q EXCEPT !.optimized = @ \cup {[id |-> id,
                                   dependent |-> q.dependencytree[id].dependent,
                                   removed |-> FALSE]}]

\* optimize that also files the Module under its name in the dependencies map
\* of the root when a dependent is left.
optimizeHoists(q, id) ==
  LET m == q.dependencytree[id]
      RECURSIVE Map(_, _)
      Map(k, arr) ==
        IF k > Len(m.dependent) \/ k > Len(arr) THEN arr
        ELSE IF parent(q, arr[k], m.name, m.version) = <<>>
             THEN Map(k + 1, splice(arr, indexOf(arr, arr[k])))
             ELSE Map(k + 1, arr)
      left == Map(1, m.dependent)
  IN  [q EXCEPT !.dependencytree[id].dependent = left,
                !.data.dependencies.map =
                   IF left = <<>> THEN @
                   ELSE [n \in (DOMAIN @) \cup {m.name} |->
                           IF n = m.name THEN id ELSE @[n]],
                !.optimized = @ \cup {[id |-> id,
                                       dependent |-> m.dependent,
                                       removed |-> Len(left) < Len(m.dependent)]}]

\* Shrinkwrap.prototype.optimize: dependent.map visits the indexes below the
\* length it started with that still exist, while the callback splices the
\* dependents without a candidate path out of the same array.
optimize(q, id) ==
  LET m == q.dependencytree[id]
      RECURSIVE Map(_, _)
      Map(k, arr) ==
        IF k > Len(m.dependent) \/ k > Len(arr) THEN arr
        ELSE IF parent(q, arr[k], m.name, m.version) = <<>>
             THEN Map(k + 1, splice(arr, indexOf(arr, arr[k])))
             ELSE Map(k + 1, arr)
      left == Map(1, m.dependent)
  IN  [q EXCEPT !.dependencytree[id].dependent = left,
                !.optimized = @ \cup {[id |-> id,
                                       dependent |-> m.dependent,
                                       removed |-> Len(left) < Len(m.dependent)]}]

\* The calls of the callback of dependent.map in optimize: the dependent it
\* was called with and the parents it returned, for the indexes map visits.
mapped(q, id) ==
  LET m == q.dependencytree[id]
      RECURSIVE Map(_, _, _)
      Map(k, arr, result) ==
        IF k > Len(m.dependent) \/ k > Len(arr) THEN result
        ELSE LET parents == parent(q, arr[k], m.name, m.version)
                 called == Append(result, [dep |-> arr[k], parents |-> parents])
             IN  IF parents = <<>>
                 THEN Map(k + 1, splice(arr, indexOf(arr, arr[k])), called)
                 ELSE Map(k + 1, arr, called)
  IN  Map(1, m.dependent, <<>>)

\* ------------------------------------------------------------ queue.push
\* What a call of queue.push did: the spec it was given, the todo list it
\* found and the one it left, whether the key had its Module, and the
\* dependent list of that Module as it found it.
Pushed(q, data, after) ==
  [after EXCEPT !.pushes = @ \cup
     {[spec |-> data,
       todo |-> q.todolist,
       left |-> after.todolist,
       resolved |-> data._id \in DOMAIN q.dependencytree,
       dependent |-> IF data._id \in DOMAIN q.dependencytree
                     THEN q.dependencytree[data._id].dependent
                     ELSE <<>>]}]

\* The first entry of the todo list with the key of the spec; 0 without one.
Pending(q, data) ==
  IF \E i \in 1..Len(q.todolist) : q.todolist[i]._id = data._id
  THEN CHOOSE i \in 1..Len(q.todolist) :
         /\ q.todolist[i]._id = data._id
         /\ \A j \in 1..(i - 1) : q.todolist[j]._id # data._id
  ELSE 0

\* push without the test for a Module of the key in the tree.
pushAlwaysQueues(q, data) ==
  Pushed(q, data,
    IF Pending(q, data) # 0
    THEN [q EXCEPT !.todolist[Pending(q, data)].parents = unique(@ \o data.parents)]
    ELSE [q EXCEPT !.todolist = Append(@, data)])

\* push that adds the dependents of a Module and does not call optimize.
pushSkipsOptimize(q, data) ==
  Pushed(q, data,
    IF Pending(q, data) # 0
    THEN [q EXCEPT !.todolist[Pending(q, data)].parents = unique(@ \o data.parents)]
    ELSE IF data._id \in DOMAIN q.dependencytree
    THEN [q EXCEPT !.dependencytree[data._id].dependent = unique(@ \o data.parents)]
    ELSE [q EXCEPT !.todolist = Append(@, data)])

\* push that puts the pushed spec in the place of the pending one.
pushReplacesPending(q, data) ==
  Pushed(q, data,
    IF Pending(q, data) # 0
    THEN [q EXCEPT !.todolist[Pending(q, data)] = data]
    ELSE IF data._id \in DOMAIN q.dependencytree
    THEN optimize([q EXCEPT !.dependencytree[data._id].dependent =
                              unique(@ \o data.parents)],
                  data._id)
    ELSE [q EXCEPT !.todolist = Append(@, data)])

\* queue.push
push(q, data) ==
  Pushed(q, data,
    IF Pending(q, data) # 0
    THEN [q EXCEPT !.todolist[Pending(q, data)].parents = unique(@ \o data.parents)]
    ELSE IF data._id \in DOMAIN q.dependencytree
    THEN optimize([q EXCEPT !.dependencytree[data._id].dependent =
                              unique(@ \o data.parents)],
                  data._id)
    ELSE [q EXCEPT !.todolist = Append(@, data)])

\* ---------------------------------------------------------------- dedupe
\* dedupe that also deletes a devDependencies group it finds empty.
dedupeDropsEmptied(pkg) ==
  IF "dependencies" \notin DOMAIN pkg THEN pkg
  ELSE IF "devDependencies" \notin DOMAIN pkg \/ production THEN pkg
  ELSE IF DOMAIN pkg["devDependencies"] = {}
  THEN [g \in (DOMAIN pkg) \ {"devDependencies"} |-> pkg[g]]
  ELSE LET dep == pkg["dependencies"]
           dev == pkg["devDependencies"]
           gone == {name \in DOMAIN dep :
                      name \in DOMAIN dev /\ semverEq(dev[name], dep[name])}
       IN  [pkg EXCEPT !["devDependencies"] =
              [name \in (DOMAIN dev) \ gone |-> dev[name]]]

\* dedupe that compares the two ranges as strings.
dedupeByString(pkg) ==
  IF "dependencies" \notin DOMAIN pkg THEN pkg
  ELSE IF "devDependencies" \notin DOMAIN pkg \/ production THEN pkg
  ELSE LET dep == pkg["dependencies"]
           dev == pkg["devDependencies"]
           gone == {name \in DOMAIN dep :
                      name \in DOMAIN dev /\ dev[name] = dep[name]}
       IN  [pkg EXCEPT !["devDependencies"] =
              [name \in (DOMAIN dev) \ gone |-> dev[name]]]

\* Shrinkwrap.prototype.dedupe
dedupe(pkg) ==
  IF "dependencies" \notin DOMAIN pkg THEN pkg
  ELSE IF "devDependencies" \notin DOMAIN pkg \/ production THEN pkg
  ELSE LET dep == pkg["dependencies"]
           dev == pkg["devDependencies"]
           gone == {name \in DOMAIN dep :
                      name \in DOMAIN dev /\ semverEq(dev[name], dep[name])}
       IN  [pkg EXCEPT !["devDependencies"] =
              [name \in (DOMAIN dev) \ gone |-> dev[name]]]

\* ----------------------------------------------------------------- queue
\* Scanned without the production test: devDependencies are always scanned.
ScannedIgnoresProduction(pkg) ==
  LET RECURSIVE Scan(_)
      Scan(i) ==
        IF i > Len(Dependencies) THEN {<<>>}
        ELSE LET key == Dependencies[i]
             IN  IF key \notin DOMAIN pkg THEN Scan(i + 1)
                 ELSE {[k \in 1..Len(o) |-> [name |-> o[k], range |-> pkg[key][o[k]], key |-> key]] \o rest :
                         o \in Orders(DOMAIN pkg[key]), rest \in Scan(i + 1)}
  IN  Scan(1)

\* Scanned with the production test on peerDependencies.
ScannedSkipsPeer(pkg) ==
  LET RECURSIVE Scan(_)
      Scan(i) ==
        IF i > Len(Dependencies) THEN {<<>>}
        ELSE LET key == Dependencies[i]
             IN  IF production /\ key = "peerDependencies" THEN Scan(i + 1)
                 ELSE IF key \notin DOMAIN pkg THEN Scan(i + 1)
                 ELSE {[k \in 1..Len(o) |-> [name |-> o[k], range |-> pkg[key][o[k]], key |-> key]] \o rest :
                         o \in Orders(DOMAIN pkg[key]), rest \in Scan(i + 1)}
  IN  Scan(1)

\* The specs queue(packages, ref, depth) pushes, in every order it can push
\* them in: the groups in the order of Shrinkwrap.dependencies, the names
\* of a group in the order of Object.keys.
Scanned(pkg) ==
  LET RECURSIVE Scan(_)
      Scan(i) ==
        IF i > Len(Dependencies) THEN {<<>>}
        ELSE LET key == Dependencies[i]
             IN  IF production /\ key = "devDependencies" THEN Scan(i + 1)
                 ELSE IF key \notin DOMAIN pkg THEN Scan(i + 1)
                 ELSE {[k \in 1..Len(o) |-> [name |-> o[k], range |-> pkg[key][o[k]], key |-> key]] \o rest :
                         o \in Orders(DOMAIN pkg[key]), rest \in Scan(i + 1)}
  IN  Scan(1)

\* ref.dependencies = ref.dependencies || {}
WithDependencies(q, ref) ==
  IF NodeDependencies(q, ref).defined THEN q
  ELSE IF ref = Root THEN [q EXCEPT !.data.dependencies.defined = TRUE]
  ELSE [q EXCEPT !.dependencytree[ref].dependencies.defined = TRUE]

\* queue with a loop that stops after the first entry it pushes.
queueFirstOnly(q, pkg, ref, depth) ==
  {IF entries = <<>> THEN q
   ELSE push([WithDependencies(q, ref) EXCEPT
                !.pushed = @ \cup {Id(entries[1].name, entries[1].range)}],
             [name |-> entries[1].name,
              range |-> entries[1].range,
              _id |-> Id(entries[1].name, entries[1].range),
              parents |-> <<ref>>,
              depth |-> depth]) :
     entries \in Scanned(pkg)}

\* queue(packages, ref, depth) once packages is deduped: the queues it can
\* leave, one per order of the keys.
queue(q, pkg, ref, depth) ==
  LET RECURSIVE Each(_, _, _)
      Each(qq, entries, k) ==
        IF k > Len(entries) THEN qq
        ELSE Each(push([WithDependencies(qq, ref) EXCEPT
                          !.pushed = @ \cup {Id(entries[k].name, entries[k].range)},
                          !.origins = @ \cup {<<Id(entries[k].name, entries[k].range),
                                                entries[k].key>>}],
                       [name |-> entries[k].name,
                        range |-> entries[k].range,
                        _id |-> Id(entries[k].name, entries[k].range),
                        parents |-> <<ref>>,
                        depth |-> depth]),
                  entries, k + 1)
  IN  {Each(q, entries, 1) : entries \in Scanned(pkg)}

\* ------------------------------------------------------- the registry
\* What the registry can answer for a name: an error, or its versions.
DocValues ==
  {[error |-> e, versions |-> {}] : e \in RegistryErrors}
    \cup {[error |-> Undefined, versions |-> V] : V \in (SUBSET Versions) \ {{}}}

NoCache == [live |-> FALSE, keys |-> {}]

\* --------------------------------------------------------------- destroy
\* Shrinkwrap.prototype.destroy: this.registry = this.cache = null
destroy(w) == [w EXCEPT !.registry = FALSE, !.cache = NoCache]

\* What a call of destroy returns: the function has no return statement.
destroyReturns == Undefined

\* ---------------------------------------------------------- queue.worker
\* complete that destroys and deletes before it calls fn.
completeReleasesFirst(w) ==
  LET released == [destroy(w) EXCEPT
                     !.q.state = "done",
                     !.q.data = [dependencies |-> NoDependencies],
                     !.q.errors = <<>>,
                     !.q.dependencytree = <<>>]
  IN  [released EXCEPT !.q.callbacks =
         Append(@, [err |-> Undefined,
                    tree |-> released.q.dependencytree,
                    errors |-> released.q.errors,
                    cache |-> released.cache.live,
                    registry |-> released.registry,
                    root |-> released.q.data.dependencies])]

\* The completion branch of the worker: deliver, destroy, delete the
\* queue's data, errors and dependencytree.
complete(w) ==
  LET delivered == [w EXCEPT !.q.callbacks =
                      Append(@, [err |-> Undefined,
                                 tree |-> w.q.dependencytree,
                                 errors |-> w.q.errors,
                                 cache |-> w.cache.live,
                                 registry |-> w.registry,
                                 root |-> w.q.data.dependencies])]
  IN  [destroy(delivered) EXCEPT
         !.q.state = "done",
         !.q.data = [dependencies |-> NoDependencies],
         !.q.errors = <<>>,
         !.q.dependencytree = <<>>]

\* clone with the depth after that of the spec.
cloneBelow(spec, version) ==
  [name |-> spec.name, version |-> version, required |-> spec.range,
   parents |-> spec.parents, dependent |-> <<>>, depth |-> spec.depth + 1,
   dependencies |-> NoDependencies]

\* data.module.clone({ parents: spec.parents, depth: spec.depth })
clone(spec, version) ==
  [name |-> spec.name, version |-> version, required |-> spec.range,
   parents |-> spec.parents, dependent |-> <<>>, depth |-> spec.depth,
   dependencies |-> NoDependencies]

\* parent.name +'@'+ parent.version of a node: of the root object these are
\* the name and the version of the manifest that is resolved.
Identity(tree, node) ==
  IF node = Root THEN Id(Root, "0.0.0")
  ELSE Id(tree[node].name, VersionString(tree[node].version))

\* Module.prototype.toJSON of a Module of a tree.  this.parents is an array,
\* and an array is truthy also when it is empty: this.dependent is not read.
toJSON(tree, id) ==
  [name |-> tree[id].name,
   version |-> VersionString(tree[id].version),
   required |-> tree[id].required,
   depth |-> tree[id].depth,
   _id |-> Id(tree[id].name, tree[id].required),
   parents |-> [i \in DOMAIN tree[id].parents |->
                  Identity(tree, tree[id].parents[i])]]

\* link that files the Module under its key in place of its name.
linkById(q, spec, k) ==
  LET RECURSIVE Each(_, _)
      Each(qq, i) ==
        IF i > Len(spec.parents) THEN qq
        ELSE IF spec.parents[i] = Root
        THEN Each([qq EXCEPT !.data.dependencies.map =
                     [n \in (DOMAIN @) \cup {spec._id} |->
                        IF n = spec._id THEN spec._id ELSE @[n]]], i + 1)
        ELSE Each([qq EXCEPT !.dependencytree[spec.parents[i]].dependencies.map =
                     [n \in (DOMAIN @) \cup {spec._id} |->
                        IF n = spec._id THEN spec._id ELSE @[n]]], i + 1)
  IN  Each(q, k)

\* parent.dependencies[spec.name] = queue.dependencytree[spec._id], for the
\* parents from index k on.
link(q, spec, k) ==
  LET RECURSIVE Each(_, _)
      Each(qq, i) ==
        IF i > Len(spec.parents) THEN qq
        ELSE IF spec.parents[i] = Root
        THEN Each([qq EXCEPT !.data.dependencies.map =
                     [n \in (DOMAIN @) \cup {spec.name} |->
                        IF n = spec.name THEN spec._id ELSE @[n]]], i + 1)
        ELSE Each([qq EXCEPT !.dependencytree[spec.parents[i]].dependencies.map =
                     [n \in (DOMAIN @) \cup {spec.name} |->
                        IF n = spec.name THEN spec._id ELSE @[n]]], i + 1)
  IN  Each(q, k)

RECURSIVE worker(_, _)

\* The callback of shrinkwrap.release in the worker, for a lookup that
\* found a release: clone it into the tree, link it into its parents, queue
\* its dependencies unless it came from the cache, and go on.
found(w, spec, version, cached) ==
  LET logged == [w EXCEPT !.q.results =
                   Append(@, [id |-> spec._id, name |-> spec.name, range |-> spec.range,
                              result |-> "found", version |-> version,
                              err |-> Undefined])]
      cloned == [logged EXCEPT !.q.dependencytree =
                   [id \in (DOMAIN @) \cup {spec._id} |->
                      IF id = spec._id THEN clone(spec, version) ELSE @[id]]]
  IN  IF \E i \in 1..Len(spec.parents) : ~NodeDependencies(cloned.q, spec.parents[i]).defined
      THEN {[cloned EXCEPT !.q.state = "thrown"]}
      ELSE LET linked == [cloned EXCEPT !.q = link(@, spec, 1)]
           IN  IF cached THEN worker(linked, Undefined)
               ELSE LET pkg == dedupe(linked.manifests[<<spec.name, version>>])
                        deduped == [linked EXCEPT !.manifests[<<spec.name, version>>] = pkg]
                    IN  UNION {worker([deduped EXCEPT !.q = qq], Undefined) :
                                 qq \in queue(deduped.q, pkg, spec._id, spec.depth + 1)}

\* failed with a worker that also hands the error to fn.
failedCallsBack(w, spec, err) ==
  worker([w EXCEPT !.q.results =
            Append(@, [id |-> spec._id, name |-> spec.name, range |-> spec.range,
                       result |-> IF err = Undefined THEN "absent" ELSE "error",
                       version |-> 0, err |-> err]),
                   !.q.callbacks =
            IF err = Undefined THEN @
            ELSE Append(@, [err |-> err, tree |-> w.q.dependencytree,
                            errors |-> w.q.errors, cache |-> w.cache.live,
                            registry |-> w.registry,
                            root |-> w.q.data.dependencies])],
         err)

\* failed with a worker that records an absent lookup as an error.
failedRecordsAbsent(w, spec, err) ==
  worker([w EXCEPT !.q.results =
            Append(@, [id |-> spec._id, name |-> spec.name, range |-> spec.range,
                       result |-> IF err = Undefined THEN "absent" ELSE "error",
                       version |-> 0, err |-> err])],
         IF err = Undefined THEN "EUNSATISFIABLE" ELSE err)

\* The lookup called back with an error, or with nothing.
failed(w, spec, err) ==
  worker([w EXCEPT !.q.results =
            Append(@, [id |-> spec._id, name |-> spec.name, range |-> spec.range,
                       result |-> IF err = Undefined THEN "absent" ELSE "error",
                       version |-> 0, err |-> err])],
         err)

\* selected that calls back with an error when no version is in the range.
selectedRaisesAbsent(w, spec) ==
  LET version == maxSatisfying(w.docs[spec.name].versions, spec.range)
      known == <<spec.name, version>> \in DOMAIN w.manifests
      stored(ww) == IF ww.cache.live
                    THEN [ww EXCEPT !.cache.keys = @ \cup {Id(spec.name, spec.range)}]
                    ELSE ww
  IN  IF version = 0 THEN failed(w, spec, "ENOVERSION")
      ELSE IF known THEN found(stored(w), spec, version, FALSE)
      ELSE UNION {found(stored([w EXCEPT !.manifests =
                                  [r \in (DOMAIN @) \cup {<<spec.name, version>>} |->
                                     IF r = <<spec.name, version>> THEN m ELSE @[r]]]),
                        spec, version, FALSE) :
                    m \in ReleaseManifestsOf(version)}

\* The callback of this.releases in Shrinkwrap.prototype.release: select the
\* version, build the cache entry, call back.
selected(w, spec) ==
  LET version == maxSatisfying(w.docs[spec.name].versions, spec.range)
      known == <<spec.name, version>> \in DOMAIN w.manifests
      stored(ww) == IF ww.cache.live
                    THEN [ww EXCEPT !.cache.keys = @ \cup {Id(spec.name, spec.range)}]
                    ELSE ww
  IN  IF version = 0 THEN failed(w, spec, Undefined)
      ELSE IF known THEN found(stored(w), spec, version, FALSE)
      ELSE UNION {found(stored([w EXCEPT !.manifests =
                                  [r \in (DOMAIN @) \cup {<<spec.name, version>>} |->
                                     IF r = <<spec.name, version>> THEN m ELSE @[r]]]),
                        spec, version, FALSE) :
                    m \in ReleaseManifestsOf(version)}

\* releases with a worker that does not wait for the answer of the request
\* it sent before it takes the next spec.
releasesKeepsWorking(w, spec) ==
  IF w.cache.live /\ spec.name \in w.cache.keys THEN selected(w, spec)
  ELSE IF ~w.registry THEN {[w EXCEPT !.q.state = "thrown"]}
  ELSE IF w.q.todolist = <<>>
  THEN {[w EXCEPT !.q.inflight = @ \cup {spec},
                  !.q.fetched = Append(@, spec.name)]}
  ELSE worker([w EXCEPT !.q.inflight = @ \cup {spec},
                        !.q.fetched = Append(@, spec.name)],
              Undefined)

\* releases that does not look into the cache.
releasesNeverCached(w, spec) ==
  IF ~w.registry THEN {[w EXCEPT !.q.state = "thrown"]}
  ELSE {[w EXCEPT !.q.inflight = @ \cup {spec},
                  !.q.fetched = Append(@, spec.name)]}

\* Shrinkwrap.prototype.releases up to the registry request.
releases(w, spec) ==
  IF w.cache.live /\ spec.name \in w.cache.keys THEN selected(w, spec)
  ELSE IF ~w.registry THEN {[w EXCEPT !.q.state = "thrown"]}
  ELSE {[w EXCEPT !.q.inflight = @ \cup {spec},
                  !.q.fetched = Append(@, spec.name)]}

\* Shrinkwrap.prototype.release
release(w, spec) ==
  IF w.cache.live /\ Id(spec.name, spec.range) \in w.cache.keys
  THEN found(w, spec, maxSatisfying(w.docs[spec.name].versions, spec.range), TRUE)
  ELSE releases(w, spec)

\* worker that completes as soon as a lookup has failed.
workerAbortsOnError(w, err) ==
  LET noted == IF err # Undefined THEN [w EXCEPT !.q.errors = Append(@, err)] ELSE w
  IN  IF noted.q.todolist = <<>> \/ err # Undefined THEN {complete(noted)}
      ELSE LET spec == Head(noted.q.todolist)
           IN  release([noted EXCEPT !.q.todolist = Tail(@),
                                     !.q.released = Append(@, spec._id)],
                       spec)

\* queue.worker(err): the worlds the handler can end in.
worker(w, err) ==
  LET noted == IF err # Undefined THEN [w EXCEPT !.q.errors = Append(@, err)] ELSE w
  IN  IF noted.q.todolist = <<>> THEN {complete(noted)}
      ELSE LET spec == Head(noted.q.todolist)
           IN  release([noted EXCEPT !.q.todolist = Tail(@),
                                     !.q.released = Append(@, spec._id)],
                       spec)

\* details that returns on an error without calling back.
detailsDropsError(w, spec, doc) ==
  IF doc.error # Undefined THEN {w}
  ELSE selected(IF w.cache.live THEN [w EXCEPT !.cache.keys = @ \cup {spec.name}] ELSE w,
                spec)

\* details that calls back with an error of its own in place of the registry's.
detailsOwnError(w, spec, doc) ==
  IF doc.error # Undefined THEN failed(w, spec, "EFAILED")
  ELSE selected(IF w.cache.live THEN [w EXCEPT !.cache.keys = @ \cup {spec.name}] ELSE w,
                spec)

\* The callback of registry.packages.releases in Shrinkwrap.prototype.releases.
details(w, spec, doc) ==
  IF doc.error # Undefined THEN failed(w, spec, doc.error)
  ELSE selected(IF w.cache.live THEN [w EXCEPT !.cache.keys = @ \cup {spec.name}] ELSE w,
                spec)

\* ------------------------------------------------------------ the machine
NewQueue ==
  [todolist |-> <<>>, dependencytree |-> <<>>, errors |-> <<>>,
   data |-> [dependencies |-> NoDependencies],
   state |-> "active", inflight |-> {},
   callbacks |-> <<>>, pushed |-> {}, released |-> <<>>, results |-> <<>>,
   fetched |-> <<>>, given |-> <<>>, origins |-> {}, optimized |-> {},
   pushes |-> {}]

World(q) ==
  [q |-> q, cache |-> cache, registry |-> registry, docs |-> docs,
   manifests |-> manifests, source |-> source]

\* The state after the handler of call c ended in world w.
Becomes(c, w) ==
  /\ calls' = [i \in 1..(IF c > Len(calls) THEN c ELSE Len(calls)) |->
                 IF i = c THEN w.q ELSE calls[i]]
  /\ cache' = w.cache
  /\ registry' = w.registry
  /\ docs' = w.docs
  /\ manifests' = w.manifests
  /\ source' = w.source
  /\ UNCHANGED <<production, limit, options, destroyed, apart>>

\* resolve(source, fn): queue(source, queue.data, 0).worker()
resolve(c) ==
  LET pkg == dedupe(source)
      w == [World([NewQueue EXCEPT !.given = source]) EXCEPT !.source = pkg]
  IN  \E qq \in queue(w.q, pkg, Root, 0) :
        \E end \in worker([w EXCEPT !.q = qq], Undefined) : Becomes(c, end)

\* The first resolve call on the instance.
Resolve ==
  /\ calls = <<>>
  /\ gets.state = "idle"
  /\ resolve(1)
  /\ UNCHANGED gets

\* get(name, range, fn) up to the registry request for the root package.
Get ==
  /\ gets.state = "idle"
  /\ calls = <<>>
  /\ registry
  /\ gets' = [gets EXCEPT !.state = "requested"]
  /\ UNCHANGED <<production, limit, source, cache, registry, docs, manifests,
                 calls, options, destroyed, apart>>

\* got that calls fn with the error and goes on to resolve.
gotResolvesAnyway(err, pkg) ==
  /\ gets' = [state |-> IF err # Undefined THEN "failed" ELSE "resolved",
              error |-> err,
              callbacks |-> IF err # Undefined
                            THEN Append(gets.callbacks, [err |-> err])
                            ELSE gets.callbacks]
  /\ resolve(1)

\* The callback of registry.packages.release in get: fn(err) on an error,
\* resolve(pkg, fn) otherwise; resolve of a package that is undefined throws
\* on source.name before it has queued anything.  pkg is the sequence of the
\* packages called back with: none, or the root package.
got(err, pkg) ==
  IF err # Undefined
  THEN /\ gets' = [state |-> "failed", error |-> err,
                   callbacks |-> Append(gets.callbacks, [err |-> err])]
       /\ UNCHANGED <<production, limit, source, cache, registry, docs,
                      manifests, calls, options, destroyed, apart>>
  ELSE IF pkg = <<>>
  THEN /\ gets' = [gets EXCEPT !.state = "thrown"]
       /\ UNCHANGED <<production, limit, source, cache, registry, docs,
                      manifests, calls, options, destroyed, apart>>
  ELSE /\ gets' = [gets EXCEPT !.state = "resolved"]
       /\ resolve(1)

\* The registry answers the request of get: with an error, with no release
\* for the range, or with the root package.
Got ==
  /\ gets.state = "requested"
  /\ \/ \E err \in RegistryErrors : got(err, <<>>)
     \/ got(Undefined, <<>>)
     \/ got(Undefined, <<source>>)

\* destroy() is called on the instance from outside, at any time.
Destroy ==
  /\ Len(destroyed) < MaxDestroys
  /\ LET w == destroy(World(NewQueue))
     IN  /\ cache' = w.cache
         /\ registry' = w.registry
  /\ destroyed' = Append(destroyed, destroyReturns)
  /\ UNCHANGED <<production, limit, source, docs, manifests, calls, options, gets,
                 apart>>

\* The registry answers one of the requests that are out.
Details ==
  /\ UNCHANGED gets
  /\ \E c \in 1..Len(calls) :
    \E spec \in calls[c].inflight :
       LET w == World([calls[c] EXCEPT !.inflight = @ \ {spec}])
       IN  IF spec.name \in DOMAIN docs
           THEN \E end \in details(w, spec, docs[spec.name]) : Becomes(c, end)
           ELSE \E doc \in DocValues :
                  \E end \in details([w EXCEPT !.docs =
                                        [n \in (DOMAIN @) \cup {spec.name} |->
                                           IF n = spec.name THEN doc ELSE @[n]]],
                                     spec, doc) :
                    Becomes(c, end)

\* resolve is called again on the instance, once its calls have ended.
ResolveAgain ==
  /\ calls # <<>>
  /\ Len(calls) < MaxResolves
  /\ \A c \in 1..Len(calls) : calls[c].state = "done" /\ calls[c].inflight = {}
  /\ resolve(Len(calls) + 1)
  /\ UNCHANGED gets

\* resolve is called on the instance while a call of it is in progress.
ResolveMeanwhile ==
  /\ calls # <<>>
  /\ Len(calls) < MaxResolves
  /\ \E c \in 1..Len(calls) : calls[c].state = "active"
  /\ resolve(Len(calls) + 1)
  /\ UNCHANGED gets

\* Nothing is handed to optimize, to the registry client or to Module.
NoGraph ==
  [q |-> NewQueue, first |-> NewQueue, given |-> <<>>, runs |-> <<>>,
   paths |-> <<>>]
NoPackages ==
  [name |-> "", data |-> [error |-> Undefined, versions |-> {}, tags |-> <<>>],
   asked |-> <<>>]
NoModules == [objects |-> <<>>, arrays |-> <<>>, log |-> <<>>]
NoHanded == [pkg |-> <<>>, out |-> <<>>]
NoLs ==
  [limit |-> 0, root |-> <<>>, pkgs |-> <<>>, state |-> "none", waiting |-> <<>>,
   running |-> {}, objects |-> <<>>, rootDependencies |-> <<>>,
   dependency |-> <<>>, worked |-> <<>>, asked |-> <<>>, written |-> <<>>]

\* new Shrinkwrap(options), but for options.optimize.
Constructed ==
  /\ production \in BOOLEAN
  /\ limit \in 1..MaxLimit
  /\ source \in RootManifests
  /\ cache = [live |-> TRUE, keys |-> {}]
  /\ registry = TRUE
  /\ docs = <<>>
  /\ manifests = <<>>
  /\ calls = <<>>
  /\ gets = [state |-> "idle", error |-> Undefined, callbacks |-> <<>>]
  /\ destroyed = <<>>
  /\ graph = NoGraph
  /\ packages = NoPackages
  /\ modules = NoModules
  /\ handed = NoHanded
  /\ ls = NoLs

\* The instance with the default of options.optimize.
Init ==
  /\ Constructed
  /\ options = [optimize |-> TRUE]

\* The instance with options.optimize given as true or as false.
InitOptions ==
  /\ Constructed
  /\ options \in [optimize : BOOLEAN]

Next == Resolve \/ Details

Spec == Init /\ [][Next]_vars

\* ------------------------------------------- optimize, called on its own
\* The Module optimize is called on, and the nodes its dependents are taken
\* from: the root object, a Module of its name, and two Modules of another.
Subject == Id("a", "*")
Namesake == Id("a", VersionString(1))
Other == Id("b", "*")
Deeper == Id("b", VersionString(1))

GraphNodes == {Root, Namesake, Other, Deeper}

\* The lists of at most max different elements of a set.
Lists(S, max) == UNION {Orders(T) : T \in {U \in SUBSET S : Cardinality(U) <= max}}

\* An object with a parent property.
WithParent(object, ref) ==
  IF ref = NoRef THEN object
  ELSE [f \in (DOMAIN object) \cup {"parent"} |->
          IF f = "parent" THEN ref ELSE object[f]]

\* A Module as clone leaves it in the tree.
ModuleOf(name, range, version, depth) ==
  clone([name |-> name, range |-> range, _id |-> Id(name, range),
         parents |-> <<Root>>, depth |-> depth], version)

\* The graphs optimize is called on: the Subject has version 1 and a list of
\* dependents; the Namesake has that version or another; the nodes have a
\* parent property or none, which holds a node or a dependencies map and
\* leads nowhere back; the root has the Namesake as a dependency or nothing.
OptimizeInputs ==
  {[NewQueue EXCEPT
      !.data = [dependencies |-> [defined |-> TRUE, map |-> rootmap]],
      !.todolist = <<[name |-> "b", range |-> VersionString(2),
                      _id |-> Id("b", VersionString(2)),
                      parents |-> <<Subject>>, depth |-> 1]>>,
      !.errors = <<"ENETWORK">>,
      !.dependencytree =
         [id \in {Subject, Namesake, Other, Deeper} |->
            IF id = Subject
            THEN [ModuleOf("a", "*", 1, 0) EXCEPT !.dependent = dependents]
            ELSE IF id = Namesake
            THEN WithParent(ModuleOf("a", VersionString(1), version, 1), ofNamesake)
            ELSE IF id = Other
            THEN WithParent(ModuleOf("b", "*", 1, depth), ofOther)
            ELSE WithParent(ModuleOf("b", VersionString(1), 1, 1), ofDeeper)]] :
     rootmap \in {<<>>, [n \in {"a"} |-> Namesake]},
     version \in Versions,
     depth \in {0, 1},
     ofNamesake \in {NoRef, NodeRef(Root)},
     ofOther \in {NoRef, NodeRef(Root), NodeRef(Namesake), MapRef(Root)},
     ofDeeper \in {NoRef, NodeRef(Other), MapRef(Root)},
     dependents \in Lists(GraphNodes, MaxDependents)}

\* shrinkwrap.optimize(dependency), called once more on the same Module.
Optimize ==
  /\ Subject \in DOMAIN graph.q.dependencytree
  /\ Len(graph.runs) < MaxOptimizes
  /\ graph' = [graph EXCEPT !.q = optimize(@, Subject),
                            !.runs = Append(@, optimize(graph.q, Subject)),
                            !.paths = Append(@, mapped(graph.q, Subject))]
  /\ UNCHANGED <<production, limit, source, cache, registry, docs, manifests,
                 calls, options, gets, destroyed, packages, modules, handed, ls>>

\* ---------------------------------------- the registry client (registry.js)
\* The names of the dist-tags of a registry document.
Tags == {"latest", "next"}

\* What the registry answers for a package: an error, or a document with
\* published versions and dist-tags that point to published versions.
Documents ==
  {[error |-> e, versions |-> {}, tags |-> <<>>] : e \in RegistryErrors}
    \cup UNION {{[error |-> Undefined, versions |-> V, tags |-> t] :
                   t \in UNION {[T -> V] : T \in SUBSET Tags}} :
                 V \in (SUBSET Versions) \ {{}}}

\* The ranges a release is asked for: those of the manifests and the tags.
Asked == Ranges \cup Tags

NoRelease == [tag |-> "", name |-> "", version |-> ""]

\* The releases of data.versions in the order of their keys.
ByVersion(data) ==
  CHOOSE o \in Orders(data.versions) : \A i, j \in DOMAIN o : i < j => o[i] < o[j]

\* The releases of data.versions are objects: objects holds them by position
\* and rows the positions that were given to add, in order.
Versioned(name, data) ==
  LET byVersion == ByVersion(data)
  IN  [objects |-> [i \in DOMAIN byVersion |->
                      [tag |-> "", name |-> name,
                       version |-> VersionString(byVersion[i])]],
       rows |-> [i \in DOMAIN byVersion |-> i]]

\* The position of the release of a version in data.versions.
At(data, version) ==
  CHOOSE i \in DOMAIN ByVersion(data) : ByVersion(data)[i] = version

\* emit that sets the tag on data.versions[version] itself, without the
\* JSON.parse(JSON.stringify()) of it.
EmittedShared(name, data) ==
  LET byTag == CHOOSE o \in Orders(DOMAIN data.tags) : TRUE
      RECURSIVE Tag(_, _)
      Tag(e, i) ==
        IF i > Len(byTag) THEN e
        ELSE LET at == At(data, data.tags[byTag[i]])
             IN  Tag([objects |-> [e.objects EXCEPT ![at].tag = byTag[i]],
                      rows |-> Append(e.rows, at)], i + 1)
  IN  Tag(Versioned(name, data), 1)

\* The releases emit adds: one per version, then one per dist-tag, a new
\* object that is a copy of data.versions[version], with the tag set on it.
Emitted(name, data) ==
  LET byTag == CHOOSE o \in Orders(DOMAIN data.tags) : TRUE
      RECURSIVE Tag(_, _)
      Tag(e, i) ==
        IF i > Len(byTag) THEN e
        ELSE LET at == At(data, data.tags[byTag[i]])
                 copy == [e.objects[at] EXCEPT !.tag = byTag[i]]
             IN  Tag([objects |-> Append(e.objects, copy),
                      rows |-> Append(e.rows, Len(e.objects) + 1)], i + 1)
  IN  Tag(Versioned(name, data), 1)

\* map: a record of the fields of every release that was added.
Added(name, data) ==
  LET e == Emitted(name, data)
  IN  [i \in DOMAIN e.rows |-> e.objects[e.rows[i]]]

\* reduce: memo[release.tag || release.version] = release
RegistryReduce(added) ==
  LET RECURSIVE Reduce(_, _)
      Reduce(memo, i) ==
        IF i > Len(added) THEN memo
        ELSE LET key == IF added[i].tag # "" THEN added[i].tag ELSE added[i].version
             IN  Reduce([k \in (DOMAIN memo) \cup {key} |->
                           IF k = key THEN added[i] ELSE memo[k]], i + 1)
  IN  Reduce(<<>>, 1)

\* Registry.prototype.releases: the release set of a document.
RegistryReleases(name, data) == RegistryReduce(Added(name, data))

\* The published versions among the keys of a release set: a key that is a
\* tag is no version and is in no range.
Published(keys) == {v \in Versions : VersionString(v) \in keys}

\* release without the test for the range among the keys.
RegistryReleaseByRange(name, data, range) ==
  IF data.error # Undefined
  THEN [err |-> data.error, found |-> FALSE, release |-> NoRelease]
  ELSE LET versions == RegistryReleases(name, data)
           version == maxSatisfying(Published(DOMAIN versions), range)
       IN  IF version = 0
           THEN [err |-> Undefined, found |-> FALSE, release |-> NoRelease]
           ELSE [err |-> Undefined, found |-> TRUE,
                 release |-> versions[VersionString(version)]]

\* Registry.prototype.release: what fn is called with.
RegistryRelease(name, data, range) ==
  IF data.error # Undefined
  THEN [err |-> data.error, found |-> FALSE, release |-> NoRelease]
  ELSE LET versions == RegistryReleases(name, data)
           version == maxSatisfying(Published(DOMAIN versions), range)
       IN  IF range \in DOMAIN versions
           THEN [err |-> Undefined, found |-> TRUE, release |-> versions[range]]
           ELSE IF version = 0
           THEN [err |-> Undefined, found |-> FALSE, release |-> NoRelease]
           ELSE [err |-> Undefined, found |-> TRUE,
                 release |-> versions[VersionString(version)]]

\* registry.release(name, range, fn) is called, and fn with its answer.
Release ==
  /\ packages.name \in Names
  /\ Len(packages.asked) < MaxReleases
  /\ \E range \in Asked :
       packages' = [packages EXCEPT !.asked =
                      Append(@, [range |-> range,
                                 answer |-> RegistryRelease(packages.name,
                                                            packages.data, range)])]
  /\ UNCHANGED <<production, limit, source, cache, registry, docs, manifests,
                 calls, options, gets, destroyed, graph, modules, handed, ls>>

\* ------------------------------------------------------ Module (module.js)
\* Modules are objects and their parents and dependent are arrays: a Module
\* is a record of objects, an array a sequence of arrays, and a field that
\* holds an array holds its position, so that two Modules can hold the same
\* array.  The elements of an array are positions of objects.

\* The depth of a Module that was given none: new Module(data, range).
NoDepth == 0 - 1

\* What release makes a Module of: a release of the registry and the range.
ModuleData ==
  {[name |-> "a", version |-> VersionString(1), latest |-> VersionString(2),
    released |-> "2014-01-01", licenses |-> <<"MIT">>, _npmUser |-> "u"]}

ModuleRanges == Ranges \cup {"latest", ">=" \o VersionString(1)}

\* function Module(data, range, depth)
Module(h, data, range, depth) ==
  [h EXCEPT
     !.objects = Append(@, [_id |-> Id(data.name, range),
                            released |-> data.released,
                            licenses |-> data.licenses,
                            version |-> data.version,
                            author |-> data._npmUser,
                            latest |-> data.latest,
                            required |-> range,
                            name |-> data.name,
                            parents |-> Len(h.arrays) + 1,
                            dependent |-> Len(h.arrays) + 2,
                            depth |-> depth]),
     !.arrays = @ \o << <<>>, <<>> >>]

\* Object.keys(data).forEach: module[prop] = data[prop]
Merged(module, data) ==
  [prop \in (DOMAIN module) \cup (DOMAIN data) |->
     IF prop \in DOMAIN data THEN data[prop] ELSE module[prop]]

\* clone that hands its own arrays to the new Module.
ModuleCloneShared(h, i, data) ==
  LET this == h.objects[i]
      made == Module(h, [_npmUser |-> this.author, released |-> this.released,
                         licenses |-> this.licenses, version |-> this.version,
                         latest |-> this.latest, name |-> this.name],
                     this.required, this.depth)
      m == Len(made.objects)
  IN  [made EXCEPT !.objects[m] =
         Merged([@ EXCEPT !.parents = this.parents,
                          !.dependent = this.dependent], data)]

\* Module.prototype.clone
ModuleClone(h, i, data) ==
  LET this == h.objects[i]
      made == Module(h, [_npmUser |-> this.author, released |-> this.released,
                         licenses |-> this.licenses, version |-> this.version,
                         latest |-> this.latest, name |-> this.name],
                     this.required, this.depth)
      m == Len(made.objects)
  IN  [made EXCEPT !.objects[m] = Merged(@, data)]

\* What reading a property of an object gives.
Property(object, prop) ==
  IF prop \in DOMAIN object THEN object[prop] ELSE Undefined

StartsWith(string, prefix) ==
  /\ Len(string) >= Len(prefix)
  /\ SubSeq(string, 1, Len(prefix)) = prefix

Null == "null"

\* semver.validRange(range, true): the range, or null for what is no range.
validRange(range) ==
  IF range = "*" \/ IsVersion(range)
     \/ (StartsWith(range, ">=") /\ IsVersion(SubSeq(range, 3, Len(range))))
  THEN range
  ELSE Null

\* Module.prototype.pinned
pinned(this) ==
  IF Property(this, "range") = "*" \/ Property(this, "range") = "latest"
  THEN FALSE
  ELSE LET range == validRange(Property(this, "range"))
       IN  ~(range # Null /\ StartsWith(range, ">="))

\* The objects and arrays, without the log.
Heap(h) == [objects |-> h.objects, arrays |-> h.arrays]

\* The array of the requesters of a spec, which the callers of clone hold.
CallerArray == 3

\* What clone is given: nothing, or as the worker a depth and the array of
\* the requesters, or one of the two, or the dependent array of the Module
\* that is cloned.
Overrides(h, i) ==
  {<<>>, [dependent |-> h.objects[i].dependent], [parents |-> CallerArray]}
    \cup {[depth |-> 1], [parents |-> CallerArray, depth |-> 1]}

Logged(h, entry) == [h EXCEPT !.log = Append(@, entry)]

\* module.clone(data) is called on one of the Modules.
Clone ==
  /\ Len(modules.objects) \in 1..(MaxModules - 1)
  /\ \E i \in DOMAIN modules.objects :
       \E data \in Overrides(modules, i) :
         LET after == ModuleClone(modules, i, data)
         IN  modules' = Logged(after, [kind |-> "clone", on |-> i,
                                       made |-> Len(after.objects),
                                       data |-> data,
                                       before |-> Heap(modules),
                                       after |-> Heap(after)])
  /\ UNCHANGED <<production, limit, source, cache, registry, docs, manifests,
                 calls, options, gets, destroyed, graph, packages, handed, ls>>

Mutations(h) == Cardinality({i \in DOMAIN h.log : h.log[i].kind # "clone"})

\* A Module gets a dependent as in queue.push:
\* dependent = dependent.concat(parents).filter(unique)
Attach ==
  /\ Len(modules.objects) > 0
  /\ Mutations(modules) < MaxMutations
  /\ \E i \in DOMAIN modules.objects, j \in DOMAIN modules.objects :
       LET after == [modules EXCEPT
                       !.arrays = Append(@, unique(@[modules.objects[i].dependent]
                                                    \o <<j>>)),
                       !.objects[i].dependent = Len(modules.arrays) + 1]
       IN  modules' = Logged(after, [kind |-> "attach", on |-> i, made |-> i,
                                     data |-> <<>>, before |-> Heap(modules),
                                     after |-> Heap(after)])
  /\ UNCHANGED <<production, limit, source, cache, registry, docs, manifests,
                 calls, options, gets, destroyed, graph, packages, handed, ls>>

\* A Module loses its first dependent as in optimize:
\* dependency.dependent.splice(dependency.dependent.indexOf(dep), 1)
Splice ==
  /\ Len(modules.objects) > 0
  /\ Mutations(modules) < MaxMutations
  /\ \E i \in DOMAIN modules.objects :
       /\ Len(modules.arrays[modules.objects[i].dependent]) > 0
       /\ LET after == [modules EXCEPT
                          !.arrays[modules.objects[i].dependent] = Tail(@)]
          IN  modules' = Logged(after, [kind |-> "splice", on |-> i, made |-> i,
                                        data |-> <<>>, before |-> Heap(modules),
                                        after |-> Heap(after)])
  /\ UNCHANGED <<production, limit, source, cache, registry, docs, manifests,
                 calls, options, gets, destroyed, graph, packages, handed, ls>>

\* The depth of a Module is assigned.
Deepen ==
  /\ Len(modules.objects) > 0
  /\ Mutations(modules) < MaxMutations
  /\ \E i \in DOMAIN modules.objects, d \in 0..1 :
       /\ modules.objects[i].depth # d
       /\ LET after == [modules EXCEPT !.objects[i].depth = d]
          IN  modules' = Logged(after, [kind |-> "depth", on |-> i, made |-> i,
                                        data |-> <<>>, before |-> Heap(modules),
                                        after |-> Heap(after)])
  /\ UNCHANGED <<production, limit, source, cache, registry, docs, manifests,
                 calls, options, gets, destroyed, graph, packages, handed, ls>>

\* --------------------------------------- manifests of any shape (index.js)
\* The value of a dependency group as JavaScript has it: a plain object with
\* its entries, or an empty array, a string that is not empty, a date or null.
AnyValues ==
  {[type |-> "object", map |-> m] : m \in GroupValues}
    \cup {[type |-> t, map |-> <<>>] : t \in {"array", "string", "date", "null"}}

\* The groups of the manifests that are handed to queue on their own.
AnyGroups == {"dependencies", "devDependencies"}

AnyManifests == UNION {[G -> AnyValues] : G \in SUBSET AnyGroups}

\* Shrinkwrap.prototype.type of a property of a manifest.
type(pkg, key) == IF key \in DOMAIN pkg THEN pkg[key].type ELSE Undefined

\* !pkg[key]: undefined and null are falsy.
Falsy(pkg, key) == type(pkg, key) \in {Undefined, "null"}

\* semver.eq(a, b): it throws a TypeError for a string that is no version.
eq(a, b) ==
  IF ~IsVersion(a) \/ ~IsVersion(b) THEN "TypeError"
  ELSE IF a = b THEN "true" ELSE "false"

Returned(pkg) == [raised |-> FALSE, pkg |-> pkg]
Raised(pkg) == [raised |-> TRUE, pkg |-> pkg]

\* dedupe without the try around semver.eq, as it once was.
dedupeAnyUncaught(pkg) ==
  IF Falsy(pkg, "dependencies") THEN {Returned(pkg)}
  ELSE IF Falsy(pkg, "devDependencies") \/ production THEN {Returned(pkg)}
  ELSE IF type(pkg, "dependencies") = "string"
  THEN {Raised(pkg)} \cup (IF type(pkg, "devDependencies") = "string"
                           THEN {Raised(pkg)} ELSE {Returned(pkg)})
  ELSE IF DOMAIN pkg["dependencies"].map = {} THEN {Returned(pkg)}
  ELSE IF type(pkg, "devDependencies") = "string" THEN {Raised(pkg)}
  ELSE IF type(pkg, "devDependencies") # "object" THEN {Returned(pkg)}
  ELSE LET dep == pkg["dependencies"].map
           dev == pkg["devDependencies"].map
           both == (DOMAIN dep) \cap (DOMAIN dev)
           gone == {name \in both : eq(dev[name], dep[name]) = "true"}
       IN  IF \E name \in both : eq(dev[name], dep[name]) = "TypeError"
           THEN {Raised(pkg)}
           ELSE {Returned([pkg EXCEPT !["devDependencies"].map =
                             [name \in (DOMAIN dev) \ gone |-> dev[name]]])}

\* Shrinkwrap.prototype.dedupe on a manifest of any shape: what it returns,
\* or that it raised.  Object.keys of a string raises or gives its indexes,
\* by the version of the language; name in a string raises; an empty array
\* and a date have no keys and no entries.
dedupeAny(pkg) ==
  IF Falsy(pkg, "dependencies") THEN {Returned(pkg)}
  ELSE IF Falsy(pkg, "devDependencies") \/ production THEN {Returned(pkg)}
  ELSE IF type(pkg, "dependencies") = "string"
  THEN {Raised(pkg)} \cup (IF type(pkg, "devDependencies") = "string"
                           THEN {Raised(pkg)} ELSE {Returned(pkg)})
  ELSE IF DOMAIN pkg["dependencies"].map = {} THEN {Returned(pkg)}
  ELSE IF type(pkg, "devDependencies") = "string" THEN {Raised(pkg)}
  ELSE IF type(pkg, "devDependencies") # "object" THEN {Returned(pkg)}
  ELSE LET dep == pkg["dependencies"].map
           dev == pkg["devDependencies"].map
           both == (DOMAIN dep) \cap (DOMAIN dev)
           gone == {name \in both : eq(dev[name], dep[name]) = "true"}
       IN  {Returned([pkg EXCEPT !["devDependencies"].map =
                        [name \in (DOMAIN dev) \ gone |-> dev[name]]])}

\* The groups that pass 'object' !== this.type(packages[key]), as queue
\* reads them.
Plain(pkg) ==
  [key \in {k \in DOMAIN pkg : type(pkg, k) = "object"} |-> pkg[key].map]

\* queue(packages, ref, depth) is called on a new queue with a manifest of
\* any shape: dedupe, then the scan of the groups.
Scan ==
  /\ handed.out = <<>>
  /\ \E o \in dedupeAny(handed.pkg) :
       IF o.raised
       THEN handed' = [handed EXCEPT !.out =
                         <<[raised |-> TRUE, pkg |-> o.pkg,
                            q |-> [NewQueue EXCEPT !.state = "thrown"]]>>]
       ELSE \E qq \in queue(NewQueue, Plain(o.pkg), Root, 0) :
              handed' = [handed EXCEPT !.out =
                           <<[raised |-> FALSE, pkg |-> o.pkg, q |-> qq]>>]
  /\ UNCHANGED <<production, limit, source, cache, registry, docs, manifests,
                 calls, options, gets, destroyed, graph, packages, modules, ls>>

\* ------------------------- ls, the listing of the revision with async.queue
\* (src/unnamed/part_000).  The shrinkwrapped modules are objects: ls.objects
\* holds them by position, LsRoot is the position of the object of the root
\* package, and a task, a dependent and a parent hold a position.
LsRoot == 0
LsRootName == "root"
LsRootVersion == "0.0.0"

\* What registry.release calls back with for a name: an error, or a package
\* with its dependencies in the order of their keys, all of one range; a
\* package is complete when it has a license, a shasum and a date.
LsRange == "*"
LsPackages ==
  [Names -> [error : {Undefined, "ENETWORK"},
             dependencies : Lists(Names, Cardinality(Names)),
             complete : BOOLEAN]]

\* object[key] = value
Put(object, key, value) ==
  [k \in (DOMAIN object) \cup {key} |-> IF k = key THEN value ELSE object[k]]

\* available(dependencies) of optimize: every own property of the object
\* is read for its name and version.  A property that is undefined raises;
\* of the properties of a shrinkwrapped module only parent has a name.
lsAvailable(l, o, name, version) ==
  IF o = LsRoot THEN "true"
  ELSE IF ~l.objects[o].complete THEN "TypeError"
  ELSE LET up == l.objects[o].parent
           upName == IF up = LsRoot THEN LsRootName ELSE l.objects[up].name
           upVersion == IF up = LsRoot THEN LsRootVersion
                        ELSE l.objects[up].version
       IN  IF upName # name \/ upVersion = version THEN "true" ELSE "false"

\* parent(dependent) of optimize: the parents up to the first that is not
\* available, or raised.
lsParents(l, dep, name, version) ==
  LET RECURSIVE Walk(_, _)
      Walk(node, result) ==
        IF node = LsRoot THEN [raised |-> FALSE, parents |-> result]
        ELSE LET up == l.objects[node].parent
                 free == lsAvailable(l, up, name, version)
             IN  IF free = "TypeError" THEN [raised |-> TRUE, parents |-> result]
                 ELSE IF free = "false" THEN [raised |-> FALSE, parents |-> result]
                 ELSE Walk(up, Append(result, up))
  IN  Walk(dep, <<>>)

\* array.splice(array.indexOf(x), 1)
SpliceFirst(array, x) ==
  LET at == CHOOSE i \in DOMAIN array :
              array[i] = x /\ \A j \in 1..(i - 1) : array[j] # x
  IN  SubSeq(array, 1, at - 1) \o SubSeq(array, at + 1, Len(array))

\* optimize(dependency) of the revision: dependent.map visits the positions
\* the array had when it was called and skips those that are gone, and its
\* callback splices a dependent without parents out of the same array.
lsOptimize(l, at) ==
  LET name == l.objects[at].name
      version == l.objects[at].version
      length == Len(l.objects[at].dependent)
      RECURSIVE Map(_, _)
      Map(dependent, i) ==
        IF i > length THEN [l EXCEPT !.objects[at].dependent = dependent]
        ELSE IF i > Len(dependent) THEN Map(dependent, i + 1)
        ELSE LET path == lsParents(l, dependent[i], name, version)
             IN  IF path.raised
                 THEN [l EXCEPT !.objects[at].dependent = dependent,
                                !.state = "thrown"]
                 ELSE IF path.parents = <<>>
                 THEN Map(SpliceFirst(dependent, dependent[i]), i + 1)
                 ELSE Map(dependent, i + 1)
  IN  Map(l.objects[at].dependent, 1)

\* push(pkg, parent): a task per key of pkg.dependencies.
lsPush(l, pkg, holder) ==
  [l EXCEPT !.waiting =
     @ \o [i \in DOMAIN pkg.dependencies |->
             [name |-> pkg.dependencies[i], range |-> LsRange,
              parent |-> holder]]]

\* worker(data, next) up to next() or to the call of registry.release.
lsWorker(l, data) ==
  LET _id == Id(data.name, data.range)
      seen == [l EXCEPT !.worked = Append(@, data)]
  IN  IF _id \in DOMAIN l.dependency
      THEN lsOptimize([seen EXCEPT !.objects[l.dependency[_id]].dependent =
                                      Append(@, data.parent)],
                      l.dependency[_id])
      ELSE [seen EXCEPT !.asked = Append(@, data), !.running = @ \cup {data}]

\* The queue after a task has ended: drain when nothing waits and runs.
lsDrain(l) ==
  IF l.state = "active" /\ l.waiting = <<>> /\ l.running = {}
  THEN [l EXCEPT !.state = "drained"]
  ELSE l

\* The queue starts the tasks that wait, in their order, while fewer than
\* limit tasks run.
RECURSIVE lsProcess(_)
lsProcess(l) ==
  IF l.state = "active" /\ l.waiting # <<>> /\ Cardinality(l.running) < l.limit
  THEN lsProcess(lsDrain(lsWorker([l EXCEPT !.waiting = Tail(@)],
                                  Head(l.waiting))))
  ELSE l

\* found(err, pkg), the callback of registry.release, and next().
lsFound(l, data) ==
  LET pkg == l.pkgs[data.name]
      _id == Id(data.name, data.range)
      ended == [l EXCEPT !.running = @ \ {data}]
      at == Len(l.objects) + 1
      record == [dependent |-> <<data.parent>>, version |-> VersionString(1),
                 parent |-> data.parent, name |-> data.name, _id |-> _id,
                 complete |-> pkg.complete, dependencies |-> <<>>]
      registered == [ended EXCEPT !.objects = Append(@, record),
                                  !.dependency = Put(@, _id, at),
                                  !.written = Append(@, _id)]
      linked == IF data.parent = LsRoot
                THEN [registered EXCEPT !.rootDependencies =
                                          Put(@, data.name, at)]
                ELSE [registered EXCEPT !.objects[data.parent].dependencies =
                                          Put(@, data.name, at)]
  IN  IF pkg.error # Undefined THEN lsProcess(lsDrain(ended))
      ELSE lsProcess(lsDrain(lsPush(linked, pkg, at)))

\* ls(pkg) is called with the root package.
Ls ==
  /\ ls.state = "idle"
  /\ ls' = IF ls.root # <<>>
           THEN lsProcess(lsPush([ls EXCEPT !.state = "active"],
                                 [dependencies |-> ls.root], LsRoot))
           ELSE [ls EXCEPT !.state = "drained"]
  /\ UNCHANGED <<production, limit, source, cache, registry, docs, manifests,
                 calls, options, gets, destroyed, graph, packages, modules,
                 handed>>

\* The registry calls back for one of the tasks that run.
Found ==
  /\ ls.state = "active"
  /\ \E data \in ls.running : ls' = lsFound(ls, data)
  /\ UNCHANGED <<production, limit, source, cache, registry, docs, manifests,
                 calls, options, gets, destroyed, graph, packages, modules,
                 handed>>

\* An instance nothing is resolved on.
Aside ==
  /\ production = FALSE
  /\ limit = 1
  /\ source = Normalised(<<>>)
  /\ cache = [live |-> TRUE, keys |-> {}]
  /\ registry = TRUE
  /\ docs = <<>>
  /\ manifests = <<>>
  /\ calls = <<>>
  /\ options = [optimize |-> TRUE]
  /\ gets = [state |-> "idle", error |-> Undefined, callbacks |-> <<>>]
  /\ destroyed = <<>>
  /\ handed = NoHanded
  /\ ls = NoLs

InitOptimize ==
  /\ Aside
  /\ graph \in {[q |-> g, first |-> g,
                  given |-> g.dependencytree[Subject].dependent,
                  runs |-> <<>>, paths |-> <<>>] : g \in OptimizeInputs}
  /\ packages = NoPackages
  /\ modules = NoModules

NextOptimize == Optimize

SpecOptimize == InitOptimize /\ [][NextOptimize]_vars

InitRegistry ==
  /\ Aside
  /\ graph = NoGraph
  /\ packages \in {[name |-> n, data |-> d, asked |-> <<>>] :
                     n \in Names, d \in Documents}
  /\ modules = NoModules

NextRegistry == Release

SpecRegistry == InitRegistry /\ [][NextRegistry]_vars

\* new Module(data, range) as release makes it, and the array of requesters
\* that the callers of clone hold.
InitModule ==
  /\ Aside
  /\ graph = NoGraph
  /\ packages = NoPackages
  /\ modules \in {[Module(NoModules, data, range, NoDepth)
                     EXCEPT !.arrays = Append(@, <<1>>)] :
                   data \in ModuleData, range \in ModuleRanges}

NextModule == Clone \/ Attach \/ Splice \/ Deepen

SpecModule == InitModule /\ [][NextModule]_vars

\* An instance in either production setting, and a manifest of any shape.
InitScan ==
  /\ production \in BOOLEAN
  /\ limit = 1
  /\ source = Normalised(<<>>)
  /\ cache = [live |-> TRUE, keys |-> {}]
  /\ registry = TRUE
  /\ docs = <<>>
  /\ manifests = <<>>
  /\ calls = <<>>
  /\ options = [optimize |-> TRUE]
  /\ gets = [state |-> "idle", error |-> Undefined, callbacks |-> <<>>]
  /\ destroyed = <<>>
  /\ graph = NoGraph
  /\ packages = NoPackages
  /\ modules = NoModules
  /\ handed \in {[pkg |-> pkg, out |-> <<>>] : pkg \in AnyManifests}
  /\ ls = NoLs

NextScan == Scan

SpecScan == InitScan /\ [][NextScan]_vars

\* ls is about to be called: the root package, the registry's packages and
\* the limit of the queue.
InitLs ==
  /\ production = FALSE
  /\ limit = 1
  /\ source = Normalised(<<>>)
  /\ cache = [live |-> TRUE, keys |-> {}]
  /\ registry = TRUE
  /\ docs = <<>>
  /\ manifests = <<>>
  /\ calls = <<>>
  /\ options = [optimize |-> TRUE]
  /\ gets = [state |-> "idle", error |-> Undefined, callbacks |-> <<>>]
  /\ destroyed = <<>>
  /\ handed = NoHanded
  /\ graph = NoGraph
  /\ packages = NoPackages
  /\ modules = NoModules
  /\ ls \in {[NoLs EXCEPT !.limit = n, !.root = root, !.pkgs = pkgs,
                          !.state = "idle"] :
              n \in 1..MaxWorkers, root \in Lists(Names, Cardinality(Names)),
              pkgs \in LsPackages}

NextLs == Ls \/ Found

SpecLs == InitLs /\ [][NextLs]_vars

NextGet == Get \/ Got \/ Details

SpecGet == Init /\ [][NextGet]_vars

NextDestroy == Resolve \/ Details \/ Destroy

SpecDestroy == Init /\ [][NextDestroy]_vars

SpecOptions == InitOptions /\ [][Next]_vars

NextReuse == Resolve \/ Details \/ ResolveAgain

SpecReuse == Init /\ [][NextReuse]_vars

NextMeanwhile == Resolve \/ Details \/ ResolveMeanwhile

SpecMeanwhile == Init /\ [][NextMeanwhile]_vars

\* ------------------------------------------------------------ what is checked
\* The number of positions of a log that satisfy a test.
Count(log, Test(_)) == Cardinality({i \in DOMAIN log : Test(log[i])})

IsFound(r) == r.result = "found"
IsError(r) == r.result = "error"
IsAbsent(r) == r.result = "absent"

\* The entries a manifest declares in the groups that are scanned.
Declared(pkg) ==
  {[name |-> n, range |-> pkg[g][n]] :
     <<g, n>> \in {x \in Groups \X Names :
                     /\ x[1] \in DOMAIN pkg
                     /\ x[2] \in DOMAIN pkg[x[1]]
                     /\ ~(production /\ x[1] = "devDependencies")}}

Started == calls # <<>>

\* The first resolve call has delivered its callback.
Delivered == Started /\ calls[1].callbacks # <<>>

\* C1: during one resolve call no key is looked up twice, and once the call
\* has completed every key that was requested has been looked up exactly once.
C1_LookupOncePerKey ==
  \A c \in DOMAIN calls :
    /\ \A i, j \in DOMAIN calls[c].released :
         calls[c].released[i] = calls[c].released[j] => i = j
    /\ calls[c].state = "done" =>
         \A id \in calls[c].pushed : \E i \in DOMAIN calls[c].released :
           calls[c].released[i] = id

\* C2: whatever lookups fail, the completed call has looked up every key
\* that was requested, has requested the dependencies of every release it
\* found, delivers a Module for exactly the keys whose lookup found a
\* release, and delivers one error per lookup that called back with one.
C2_PartialFailure ==
  Delivered =>
    LET q == calls[1]
        cb == q.callbacks[1]
    IN  /\ \A id \in q.pushed : \E i \in DOMAIN q.released : q.released[i] = id
        /\ \A i \in DOMAIN q.results :
             IsFound(q.results[i]) =>
               \A e \in Declared(manifests[<<q.results[i].name, q.results[i].version>>]) :
                 Id(e.name, e.range) \in q.pushed
        /\ DOMAIN cb.tree = {q.results[i].id : i \in {j \in DOMAIN q.results : IsFound(q.results[j])}}
        /\ Len(cb.errors) = Count(q.results, IsError)

\* C2 witness: a lookup failed, and a later one found a release that has
\* dependencies of its own.
C2_Witness ==
  /\ Delivered
  /\ \E i, j \in DOMAIN calls[1].results :
       /\ i < j
       /\ IsError(calls[1].results[i])
       /\ IsFound(calls[1].results[j])
       /\ Declared(manifests[<<calls[1].results[j].name, calls[1].results[j].version>>]) # {}

\* C3: fn is called at most once, a call that has not called it is waiting
\* for a lookup, and it is called with no error, when the todo list is empty
\* and no lookup is out; no call ends by throwing.
C3_CallbackOnce ==
  \A c \in DOMAIN calls :
    LET q == calls[c]
    IN  /\ Len(q.callbacks) <= 1
        /\ q.state # "thrown"
        /\ q.state = "done" <=> Len(q.callbacks) = 1
        /\ q.state = "active" => q.inflight # {}
        /\ q.callbacks # <<>> =>
             /\ q.todolist = <<>>
             /\ q.inflight = {}
             /\ q.callbacks[1].err = Undefined

\* C3 witness: the callback was delivered after lookups that failed.
C3_Witness ==
  /\ Delivered
  /\ calls[1].callbacks[1].errors # <<>>
  /\ calls[1].callbacks[1].tree # <<>>

\* The keys of the model, and a bound on the lookups of one call: a key is
\* looked up at most once for the root and once for every release found.
KeyCount == Cardinality(Names) * Cardinality(Ranges)
LookupBound == KeyCount * (KeyCount + 1)

\* C4: a call that has not delivered its callback can always take the answer
\* of a registry request, every answer leaves one more lookup called back,
\* and the lookups of a call are bounded: so a call whose requests are all
\* answered delivers its callback after finitely many answers.
C4_Termination ==
  /\ [](\A c \in DOMAIN calls : calls[c].state = "done" \/ ENABLED Details)
  /\ [](\A c \in DOMAIN calls : Len(calls[c].results) <= LookupBound)
  /\ [][Started => /\ Len(calls') = Len(calls)
                   /\ \E c \in DOMAIN calls :
                        Len(calls'[c].results) > Len(calls[c].results)]_vars

\* C4 witness: the call completed on a registry where a release depends on
\* its own key, and one where a lookup failed.
C4_Witness ==
  /\ Delivered
  /\ \E i \in DOMAIN calls[1].results :
       LET r == calls[1].results[i]
       IN  /\ IsFound(r)
           /\ [name |-> r.name, range |-> r.range] \in Declared(manifests[<<r.name, r.version>>])
  /\ \E i \in DOMAIN calls[1].results : ~IsFound(calls[1].results[i])


\* The name and version of every Module of a tree, by key.
Shape(tree) == [id \in DOMAIN tree |-> <<tree[id].name, tree[id].version>>]

\* C5: a second resolve of the same manifest on the same instance, after the
\* first has completed, completes without a registry request and delivers a
\* tree with the keys, names and versions of the first.
C5_CacheReuse ==
  Len(calls) >= 2 =>
    /\ calls[2].state = "done"
    /\ calls[2].fetched = <<>>
    /\ Shape(calls[2].callbacks[1].tree) = Shape(calls[1].callbacks[1].tree)

\* The entries reachable from the root manifest through the releases the
\* registry has for them.
Resolvable(e) ==
  /\ e.name \in DOMAIN docs
  /\ docs[e.name].error = Undefined
  /\ maxSatisfying(docs[e.name].versions, e.range) # 0

Unreachable(e) == e.name \in DOMAIN docs /\ docs[e.name].error # Undefined

RECURSIVE Closure(_)
Closure(S) ==
  LET more == UNION {Declared(manifests[<<e.name, maxSatisfying(docs[e.name].versions, e.range)>>]) :
                       e \in {x \in S : Resolvable(x)}}
  IN  IF more \subseteq S THEN S ELSE Closure(S \cup more)

C7_AbsentRecorded ==
  Delivered =>
    Len(calls[1].callbacks[1].errors) = Count(calls[1].results, IsError)
                                          + Count(calls[1].results, IsAbsent)

\* C7 amended: an absent lookup leaves no entry in the errors: on completion
\* every requested key is in the tree, or a lookup of it failed with an error,
\* or a lookup of it was absent, and the errors hold the failed lookups only.
C7_AbsentNotRecorded ==
  Delivered =>
    LET q == calls[1]
        cb == q.callbacks[1]
    IN  /\ \A id \in q.pushed :
             \/ id \in DOMAIN cb.tree
             \/ \E i \in DOMAIN q.results :
                  q.results[i].id = id /\ ~IsFound(q.results[i])
        /\ \A i \in DOMAIN q.results :
             IsAbsent(q.results[i]) => q.results[i].id \notin DOMAIN cb.tree
        /\ Len(cb.errors) + Count(q.results, IsAbsent) + Count(q.results, IsFound)
             = Len(q.results)

\* C7 witness: a lookup was absent and nothing is in the errors.
C7_Witness ==
  /\ Delivered
  /\ \E i \in DOMAIN calls[1].results : IsAbsent(calls[1].results[i])
  /\ calls[1].callbacks[1].errors = <<>>

\* The lookups of a call that called back with an error, in order.
Failures(q) == SelectSeq(q.results, IsError)

\* C8 as stated: an entry of the delivered errors identifies the spec whose
\* lookup failed, so the entries of two lookups of different specs differ.
C8_EntriesIdentifySpec ==
  Delivered =>
    LET cb == calls[1].callbacks[1]
        f == Failures(calls[1])
    IN  \A i, j \in DOMAIN f :
          (i \in DOMAIN cb.errors /\ j \in DOMAIN cb.errors /\ f[i].id # f[j].id)
            => cb.errors[i] # cb.errors[j]

\* C8 amended: every entry of the delivered errors is the error the registry
\* called back with for a failed lookup, in the order of the failures.
C8_EntriesAreRegistryErrors ==
  Delivered =>
    LET cb == calls[1].callbacks[1]
        f == Failures(calls[1])
    IN  /\ Len(cb.errors) = Len(f)
        /\ \A i \in DOMAIN f :
             /\ docs[f[i].name].error \in RegistryErrors
             /\ cb.errors[i] = docs[f[i].name].error

\* C8 witness: the lookups of two different specs failed, with the same entry
\* in the errors.
C8_Witness ==
  /\ Delivered
  /\ \E i, j \in DOMAIN calls[1].callbacks[1].errors :
       /\ Failures(calls[1])[i].id # Failures(calls[1])[j].id
       /\ calls[1].callbacks[1].errors[i] = calls[1].callbacks[1].errors[j]

\* C9: a root manifest that declares nothing in the groups that are scanned
\* completes within the resolve call itself, with no lookup and no registry
\* request, an empty tree and no errors.
C9_NoDependencies ==
  (Started /\ Declared(source) = {}) =>
    /\ calls[1].state = "done"
    /\ calls[1].released = <<>>
    /\ calls[1].fetched = <<>>
    /\ Len(calls[1].callbacks) = 1
    /\ calls[1].callbacks[1].tree = <<>>
    /\ calls[1].callbacks[1].errors = <<>>

\* C9 witness: production mode, and the root has devDependencies only.
C9_Witness ==
  /\ Delivered
  /\ production
  /\ DOMAIN source = {"devDependencies"}
  /\ calls[1].released = <<>>

\* C9 witness of the other cases: every group is present and empty.
C9_WitnessEmptyGroups ==
  /\ Delivered
  /\ DOMAIN source = Groups
  /\ calls[1].released = <<>>

\* C10: the lookups of a call whose registry request is out never exceed
\* the limit option.
C10_ConcurrencyCap ==
  \A c \in DOMAIN calls : Cardinality(calls[c].inflight) <= limit

\* C10 witness: as many lookups are out as the limit allows, and more wait.
C10_Witness ==
  \E c \in DOMAIN calls :
    /\ Cardinality(calls[c].inflight) = limit
    /\ Len(calls[c].todolist) >= limit

\* The manifests of a state: the root manifest as it is now and as every
\* resolve call was given it, and the manifests of the releases selected.
ManifestsOfState ==
  {source} \cup {calls[c].given : c \in DOMAIN calls}
           \cup {manifests[r] : r \in DOMAIN manifests}

\* C11: dedupe is idempotent, in either production setting: for every manifest
\* of the state dedupe of its dedupe is its dedupe, and the root manifest a
\* resolve call has deduped is a fixed point of dedupe.
C11_DedupeIdempotent ==
  /\ \A m \in ManifestsOfState : dedupe(dedupe(m)) = dedupe(m)
  /\ Started => /\ source = dedupe(calls[Len(calls)].given)
                /\ dedupe(source) = source

\* C11 witness: the resolve call deduped a root manifest that lost an entry.
C11_Witness ==
  /\ Started
  /\ ~production
  /\ source # calls[1].given
  /\ dedupe(source) = source

\* What dedupe leaves of the manifest given, when Same(dev, dep) is the test
\* under which a devDependencies range duplicates the dependencies range.
Deduped(given, left, Same(_, _)) ==
  IF \/ "dependencies" \notin DOMAIN given
     \/ "devDependencies" \notin DOMAIN given
     \/ production
  THEN left = given
  ELSE /\ DOMAIN left = DOMAIN given
       /\ \A g \in (DOMAIN given) \ {"devDependencies"} : left[g] = given[g]
       /\ \A n \in Names :
            n \in DOMAIN left["devDependencies"] <=>
              /\ n \in DOMAIN given["devDependencies"]
              /\ ~(/\ n \in DOMAIN given["dependencies"]
                   /\ Same(given["devDependencies"][n], given["dependencies"][n]))
       /\ \A n \in DOMAIN left["devDependencies"] :
            left["devDependencies"][n] = given["devDependencies"][n]

\* The names a manifest declares with one and the same range in dependencies
\* and in devDependencies.
Doubles(given) ==
  IF "dependencies" \in DOMAIN given /\ "devDependencies" \in DOMAIN given
  THEN {n \in (DOMAIN given["dependencies"]) \cap (DOMAIN given["devDependencies"]) :
          given["dependencies"][n] = given["devDependencies"][n]}
  ELSE {}

\* A name declared twice with the same range is requested, and found at most
\* once, so that the tree has one Module for it.
OneNode(q) ==
  \A n \in Doubles(q.given) :
    LET id == Id(n, q.given["dependencies"][n])
    IN  /\ id \in q.pushed
        /\ Cardinality({i \in DOMAIN q.results :
                          q.results[i].id = id /\ IsFound(q.results[i])}) <= 1

StringEq(a, b) == a = b

\* C12 as stated: dedupe removes a devDependencies entry exactly when the name
\* is in dependencies with an equal range, whatever the range is.
C12_RemovesEqualRanges ==
  Started => /\ Deduped(calls[1].given, source, StringEq)
             /\ OneNode(calls[1])

\* C12 amended: dedupe removes a devDependencies entry exactly when the name
\* is in dependencies and both ranges are versions that semver.eq finds equal;
\* a pair of equal ranges that are no versions stays; every other entry is
\* unchanged, and the manifest is untouched when a group is absent or in
\* production mode.  A name declared twice with the same range still gets one
\* Module.
C12_RemovesEqualVersions ==
  Started => /\ Deduped(calls[1].given, source, semverEq)
             /\ OneNode(calls[1])

\* C12 witness: the root declared a name with the wildcard in both groups,
\* the devDependencies entry stayed and the tree has one Module for the key.
C12_Witness ==
  /\ Delivered
  /\ ~production
  /\ \E n \in Doubles(calls[1].given) :
       /\ calls[1].given["dependencies"][n] = "*"
       /\ n \in DOMAIN source["devDependencies"]
       /\ Id(n, "*") \in DOMAIN calls[1].callbacks[1].tree

\* C12 witness of the removal: a pair of equal versions lost its
\* devDependencies entry and the tree has its Module.
C12_WitnessRemoved ==
  /\ Delivered
  /\ ~production
  /\ \E n \in Doubles(calls[1].given) :
       /\ IsVersion(calls[1].given["dependencies"][n])
       /\ n \notin DOMAIN source["devDependencies"]
       /\ Id(n, calls[1].given["dependencies"][n]) \in DOMAIN calls[1].callbacks[1].tree

\* The ids a manifest declares in a group.
IdsOf(pkg, g) ==
  IF g \in DOMAIN pkg THEN {Id(n, pkg[g][n]) : n \in DOMAIN pkg[g]} ELSE {}

\* The manifests a call has scanned: the root and every release it found.
ScannedManifests(q) ==
  {source} \cup {manifests[<<q.results[i].name, q.results[i].version>>] :
                   i \in {j \in DOMAIN q.results : IsFound(q.results[j])}}

\* C13: in production mode no push comes from a devDependencies group, of the
\* root or of a release, every id pushed, waiting or looked up comes from one
\* of the other groups, and every entry of dependencies, peerDependencies
\* and optionalDependencies of a scanned manifest is pushed.
C13_ProductionSkipsDev ==
  production =>
    \A c \in DOMAIN calls :
      LET q == calls[c]
          others == Groups \ {"devDependencies"}
          wanted == UNION {IdsOf(m, g) : m \in ScannedManifests(q), g \in others}
      IN  /\ \A o \in q.origins : o[2] \in others
          /\ q.pushed = {o[1] : o \in q.origins}
          /\ q.pushed = wanted
          /\ \A m \in ScannedManifests(q), g \in others :
               \A id \in IdsOf(m, g) : <<id, g>> \in q.origins
          /\ \A i \in DOMAIN q.todolist : q.todolist[i]._id \in wanted
          /\ \A i \in DOMAIN q.released : q.released[i] \in wanted
          /\ \A spec \in q.inflight : spec._id \in wanted

\* C13 witness: in production mode the root and a release that was found both
\* declare devDependencies that nobody else declares, and the call completed
\* without them, with entries of the three other groups pushed.
C13_Witness ==
  /\ production
  /\ Delivered
  /\ \E id \in IdsOf(source, "devDependencies") : id \notin calls[1].pushed
  /\ \E m \in ScannedManifests(calls[1]) \ {source} :
       \E id \in IdsOf(m, "devDependencies") : id \notin calls[1].pushed
  /\ calls[1].callbacks[1].tree # <<>>

\* C13 witness of the other groups: pushes came from peerDependencies and
\* from optionalDependencies in production mode.
C13_WitnessOthers ==
  /\ production
  /\ Delivered
  /\ \E o, p \in calls[1].origins :
       o[2] = "peerDependencies" /\ p[2] = "optionalDependencies"

\* The invocations of fn, by get and by the resolve calls.
Invocations ==
  Len(gets.callbacks)
    + (IF calls = <<>> THEN 0 ELSE Len(calls[1].callbacks))

\* C14: when the lookup of the root package in get fails, fn is invoked once,
\* with the error of the lookup; resolve is not started, no lookup of a
\* dependency is dispatched and nothing is requested from the registry; get
\* itself invokes fn in no other case, and fn is never invoked twice.
C14_RootFailureIsFatal ==
  /\ gets.state = "failed" =>
       /\ Len(gets.callbacks) = 1
       /\ gets.error \in RegistryErrors
       /\ gets.callbacks[1].err = gets.error
       /\ calls = <<>>
       /\ docs = <<>>
       /\ manifests = <<>>
  /\ gets.callbacks # <<>> => gets.state = "failed"
  /\ Invocations <= 1

\* C14 witness: the lookup of the root package failed and fn has the error.
C14_Witness ==
  /\ gets.state = "failed"
  /\ gets.callbacks = <<[err |-> gets.error]>>
  /\ Declared(source) # {}

\* C15: destroy can be called any number of times: every call returns true,
\* and after every call, the first as the later ones, the instance has no
\* cache and no registry.
C15_DestroyAnyTimes ==
  /\ \A i \in DOMAIN destroyed : destroyed[i] = "true"
  /\ destroyed # <<>> => cache = NoCache /\ ~registry

\* The part of C15 that holds: the state of the instance after n calls is its
\* state after one.
C15_DestroyedStaysDestroyed ==
  destroyed # <<>> => cache = NoCache /\ ~registry

\* C16: with the optimize option false, optimize is never invoked during a
\* resolve call, so that no Module loses a dependent.
C16_OptimizeOff ==
  ~options.optimize => \A c \in DOMAIN calls : calls[c].optimized = {}

\* C17: fn is invoked with the tree and the errors of the queue while the
\* instance still has its cache and its registry; once the call has completed
\* the instance has neither, and the queue has no data, tree or errors.
C17_DeliverThenRelease ==
  \A c \in DOMAIN calls :
    LET q == calls[c]
    IN  /\ \A i \in DOMAIN q.callbacks :
             /\ q.callbacks[i].cache
             /\ q.callbacks[i].registry
             /\ DOMAIN q.callbacks[i].tree =
                  {q.results[j].id : j \in {k \in DOMAIN q.results : IsFound(q.results[k])}}
             /\ Len(q.callbacks[i].errors) = Count(q.results, IsError)
        /\ q.state = "done" =>
             /\ q.callbacks # <<>>
             /\ cache = NoCache
             /\ ~registry
             /\ q.dependencytree = <<>>
             /\ q.errors = <<>>
             /\ q.data = [dependencies |-> NoDependencies]

\* C17 witness: a call delivered Modules and errors, and all is released.
C17_Witness ==
  /\ Delivered
  /\ calls[1].callbacks[1].tree # <<>>
  /\ calls[1].callbacks[1].errors # <<>>
  /\ calls[1].callbacks[1].cache
  /\ cache = NoCache
  /\ calls[1].dependencytree = <<>>

\* The fields that make a Module the object it is.
SameModule(m, n) ==
  /\ m.name = n.name
  /\ m.version = n.version
  /\ m.required = n.required
  /\ m.parents = n.parents
  /\ m.depth = n.depth

\* The tree of a call: the tree it delivered once it has, else the queue's.
TreeOf(q) ==
  IF q.state = "done" THEN q.callbacks[Len(q.callbacks)].tree ELSE q.dependencytree

Occurrences(log, x) == Cardinality({i \in DOMAIN log : log[i] = x})

FoundOf(q, id) ==
  Cardinality({i \in DOMAIN q.results : q.results[i].id = id /\ IsFound(q.results[i])})

\* C18: a lookup finds a release for a key at most once in a call; a Module
\* that is in the tree stays in it up to the delivery, as the same Module
\* (name, version, range, parents, depth), and its key is not looked up again:
\* a further request changes its dependent list at most.
C18_ModuleOncePerKey ==
  /\ [](\A c \in DOMAIN calls :
          /\ \A id \in DOMAIN TreeOf(calls[c]) : FoundOf(calls[c], id) = 1
          /\ \A i \in DOMAIN calls[c].results :
               FoundOf(calls[c], calls[c].results[i].id) <= 1)
  /\ [][\A c \in DOMAIN calls :
          \A id \in DOMAIN calls[c].dependencytree :
            /\ c \in DOMAIN calls'
            /\ id \in DOMAIN TreeOf(calls'[c])
            /\ SameModule(calls[c].dependencytree[id], TreeOf(calls'[c])[id])
            /\ Occurrences(calls'[c].released, id) = Occurrences(calls[c].released, id)]_vars

\* C18 witness: a key that had its Module was requested again, and the call
\* delivered the Module.
C18_Witness ==
  /\ Delivered
  /\ \E o \in calls[1].optimized : o.id \in DOMAIN calls[1].callbacks[1].tree

\* The graphs of a state: the tree and the root node of a queue, and those a
\* call delivered.
Graphs ==
  {[tree |-> calls[c].dependencytree, root |-> calls[c].data.dependencies.map] :
     c \in DOMAIN calls}
    \cup UNION {{[tree |-> calls[c].callbacks[i].tree,
                   root |-> calls[c].callbacks[i].root.map] :
                    i \in DOMAIN calls[c].callbacks} :
                 c \in DOMAIN calls}

\* The dependencies maps of a graph.
DepMaps(g) == {g.root} \cup {g.tree[id].dependencies.map : id \in DOMAIN g.tree}

\* C19: in the dependencies map of every node, the root included, every entry
\* is a Module of the tree, and no two entries are Modules of one name with
\* different versions.
C19_NoConflict ==
  \A g \in Graphs : \A map \in DepMaps(g) :
    /\ \A k \in DOMAIN map : map[k] \in DOMAIN g.tree
    /\ \A k1, k2 \in DOMAIN map :
         g.tree[map[k1]].name = g.tree[map[k2]].name
           => g.tree[map[k1]].version = g.tree[map[k2]].version

\* C19 witness: the root declares one name with two ranges that resolve to
\* different versions; both Modules are in the tree, the root has one entry.
C19_Witness ==
  /\ Delivered
  /\ \E n \in Names :
       LET cb == calls[1].callbacks[1]
           any == Id(n, "*")
           one == Id(n, VersionString(1))
       IN  /\ any \in DOMAIN cb.tree
           /\ one \in DOMAIN cb.tree
           /\ cb.tree[any].version # cb.tree[one].version
           /\ cb.tree[any].parents = <<Root>>
           /\ cb.tree[one].parents = <<Root>>
           /\ DOMAIN cb.root.map = {n}

\* The Modules a Module has in its dependencies map, and those it reaches.
Successors(g, id) ==
  {g.tree[id].dependencies.map[k] : k \in DOMAIN g.tree[id].dependencies.map}

RECURSIVE Reaches(_, _)
Reaches(g, S) ==
  LET more == UNION {Successors(g, id) : id \in S \cap DOMAIN g.tree}
  IN  IF more \subseteq S THEN S ELSE Reaches(g, S \cup more)

\* C20: no Module is in its own parents or in its own dependent list, and no
\* Module reaches itself through the dependencies maps, whatever the releases
\* of the registry declare.
C20_NoSelfNoCycle ==
  \A g \in Graphs : \A id \in DOMAIN g.tree :
    /\ \A i \in DOMAIN g.tree[id].parents : g.tree[id].parents[i] # id
    /\ \A i \in DOMAIN g.tree[id].dependent : g.tree[id].dependent[i] # id
    /\ id \notin Reaches(g, Successors(g, id))

\* C20 witness: two releases that declare each other are in a delivered tree.
C20_Witness ==
  /\ Delivered
  /\ LET q == calls[1]
         tree == q.callbacks[1].tree
         declares(x, y) ==
           [name |-> tree[y].name, range |-> tree[y].required]
             \in Declared(manifests[<<tree[x].name, tree[x].version>>])
     IN  \E x, y \in DOMAIN tree : x # y /\ declares(x, y) /\ declares(y, x)

\* C20 witness of the self-dependency: a release that declares its own key.
C20_WitnessSelf ==
  /\ Delivered
  /\ \E x \in DOMAIN calls[1].callbacks[1].tree :
       LET m == calls[1].callbacks[1].tree[x]
       IN  [name |-> m.name, range |-> m.required]
             \in Declared(manifests[<<m.name, m.version>>])

\* The candidate path of a dependent of the Subject is not empty.
HasPath(q, dependent) ==
  parent(q, dependent, q.dependencytree[Subject].name,
         q.dependencytree[Subject].version) # <<>>

\* The dependents of the Subject before the i-th call of optimize.
DependentsBefore(i) ==
  IF i = 1 THEN graph.given
  ELSE graph.runs[i - 1].dependencytree[Subject].dependent

\* C21: optimize is idempotent: a second call, with no dependent added since
\* the first, leaves the dependents of the Module and the rest of the graph
\* as the first call left them.
C21_OptimizeIdempotent ==
  \A i \in 2..Len(graph.runs) :
    /\ graph.runs[i].dependencytree = graph.runs[i - 1].dependencytree
    /\ graph.runs[i].data = graph.runs[i - 1].data

\* What holds of a second call: it changes the dependents of the Module at
\* most, and only by removing dependents without a candidate path.
C21_SecondCallOnlyRemoves ==
  \A i \in 2..Len(graph.runs) :
    /\ graph.runs[i].data = graph.runs[i - 1].data
    /\ \A id \in DOMAIN graph.runs[i].dependencytree :
         id # Subject =>
           graph.runs[i].dependencytree[id] = graph.runs[i - 1].dependencytree[id]
    /\ \A k \in DOMAIN graph.runs[i - 1].dependencytree[Subject].dependent :
         LET d == graph.runs[i - 1].dependencytree[Subject].dependent[k]
         IN  HasPath(graph.q, d) =>
               \E j \in DOMAIN graph.runs[i].dependencytree[Subject].dependent :
                 graph.runs[i].dependencytree[Subject].dependent[j] = d

\* The registry has versions of the name of a lookup, and none is in its range.
NoneSatisfies(r) ==
  /\ r.name \in DOMAIN docs
  /\ docs[r.name].error = Undefined
  /\ maxSatisfying(docs[r.name].versions, r.range) = 0

\* C22: a lookup whose range no published version satisfies calls back with
\* no error and no release: it is absent exactly then, it is an error exactly
\* when the registry failed for the name, an absent lookup leaves no Module,
\* and the delivered errors have the entries of the failed lookups only.
C22_AbsentIsNoError ==
  \A c \in DOMAIN calls :
    LET q == calls[c]
    IN  /\ \A i \in DOMAIN q.results :
             LET r == q.results[i]
             IN  /\ IsAbsent(r) <=> NoneSatisfies(r)
                 /\ IsError(r) <=> docs[r.name].error # Undefined
                 /\ IsAbsent(r) => /\ r.err = Undefined
                                   /\ r.version = 0
                                   /\ r.id \notin DOMAIN TreeOf(q)
        /\ \A i \in DOMAIN q.callbacks :
             Len(q.callbacks[i].errors) = Count(q.results, IsError)

\* C22 witness: the registry has a version of a name, a range asked for
\* another, and the call delivered without an error.
C22_Witness ==
  /\ Delivered
  /\ \E i \in DOMAIN calls[1].results :
       /\ NoneSatisfies(calls[1].results[i])
       /\ docs[calls[1].results[i].name].versions # {}
  /\ calls[1].callbacks[1].errors = <<>>

View(h, i) ==
  [h.objects[i] EXCEPT !.parents = h.arrays[@], !.dependent = h.arrays[@]]

\* C24: clone makes a new Module with the name, version, required range, id,
\* release date, licenses and latest version of the Module it is called on,
\* with every property it is given set to the given value, and with new and
\* empty parents and dependent arrays where it is given none; it changes no
\* Module and no array that was there; and a later change of the dependents
\* or the depth of the clone changes nothing of the Module it was made of,
\* unless the clone was given that Module's array.
C24_CloneIsApart ==
  \A n \in DOMAIN modules.log :
    LET e == modules.log[n]
        this == e.before.objects[e.on]
        made == e.after.objects[e.made]
    IN  /\ e.kind = "clone" =>
             /\ e.made = Len(e.before.objects) + 1
             /\ \A prop \in {"name", "version", "required", "_id", "released",
                             "licenses", "latest"} : made[prop] = this[prop]
             /\ \A prop \in DOMAIN e.data : made[prop] = e.data[prop]
             /\ "depth" \notin DOMAIN e.data => made.depth = this.depth
             /\ \A prop \in {"parents", "dependent"} \ DOMAIN e.data :
                  /\ made[prop] > Len(e.before.arrays)
                  /\ e.after.arrays[made[prop]] = <<>>
             /\ "parents" \notin DOMAIN e.data /\ "dependent" \notin DOMAIN e.data
                  => made.parents # made.dependent
             /\ \A i \in DOMAIN e.before.objects :
                  e.after.objects[i] = e.before.objects[i]
             /\ \A a \in DOMAIN e.before.arrays :
                  e.after.arrays[a] = e.before.arrays[a]
        /\ e.kind # "clone" =>
             \A k \in 1..(n - 1) :
               LET c == modules.log[k]
               IN  (c.kind = "clone" /\ c.made = e.on
                    /\ "dependent" \notin DOMAIN c.data)
                     => View(e.after, c.on) = View(e.before, c.on)

\* C24 witness: a Module that has a dependent was cloned with a depth and
\* an array of parents, and the clone then lost or got a dependent or a
\* depth while the Module kept its own.
C24_Witness ==
  \E k, n \in DOMAIN modules.log :
    LET c == modules.log[k]
        e == modules.log[n]
    IN  /\ k < n
        /\ c.kind = "clone" /\ e.kind # "clone"
        /\ c.made = e.on
        /\ DOMAIN c.data = {"parents", "depth"}
        /\ View(e.after, e.on) # View(e.before, e.on)
        /\ View(e.after, c.on) = View(e.before, c.on)
        /\ View(c.before, c.on).dependent # <<>>

\* C25: a Module is not pinned when its required range is '*' or 'latest'
\* or starts with '>=', and it is pinned for every other range.
C25_PinnedByRequired ==
  \A i \in DOMAIN modules.objects :
    LET this == modules.objects[i]
    IN  pinned(this) = ~(\/ this.required = "*"
                         \/ this.required = "latest"
                         \/ StartsWith(this.required, ">="))

\* C25, what the Modules have instead: every Module is pinned, whatever the
\* range it was required with, as no Module has the range property that
\* pinned reads.
C25_AlwaysPinned ==
  \A i \in DOMAIN modules.objects :
    /\ "range" \notin DOMAIN modules.objects[i]
    /\ pinned(modules.objects[i])

\* C26: the parents of the serialized form of a delivered Module have the
\* name@version of every node that depends on it, those that requested its
\* key when it had its Module already included.
C26_SerializedDependents ==
  \A c \in DOMAIN calls : \A n \in DOMAIN calls[c].callbacks :
    LET tree == calls[c].callbacks[n].tree
    IN  \A o \in calls[c].optimized :
          o.id \in DOMAIN tree =>
            \A d \in DOMAIN o.dependent :
              \E i \in DOMAIN toJSON(tree, o.id).parents :
                toJSON(tree, o.id).parents[i] = Identity(tree, o.dependent[d])

\* The elements of a sequence.
Elements(arr) == {arr[i] : i \in DOMAIN arr}

NoDuplicates(arr) == \A i, j \in DOMAIN arr : arr[i] = arr[j] => i = j

\* C27: a push of a spec whose key has its Module in the tree leaves the todo
\* list as it was, and the key, looked up once for that Module, is not looked
\* up again; optimize is called on the Module within the push, with a
\* dependent list that has the dependents the Module had and the parents of
\* the spec, and none twice.
C27_PushOfResolved ==
  \A c \in DOMAIN calls : \A p \in calls[c].pushes :
    p.resolved =>
      /\ p.left = p.todo
      /\ Occurrences(calls[c].released, p.spec._id) = 1
      /\ \E o \in calls[c].optimized :
           /\ o.id = p.spec._id
           /\ Elements(o.dependent) =
                Elements(p.dependent) \cup Elements(p.spec.parents)
           /\ NoDuplicates(o.dependent)

\* C27 witness: a spec was pushed whose key had its Module while other specs
\* were on the todo list, and the call delivered.
C27_Witness ==
  /\ Delivered
  /\ \E p \in calls[1].pushes :
       /\ p.resolved
       /\ p.todo # <<>>
       /\ p.spec.parents # <<Root>>

\* The entries of the todo list a spec is merged into.
Merges(p) == {i \in DOMAIN p.todo : p.todo[i]._id = p.spec._id}

\* C28: no two entries of the todo list have one key; a push of a spec whose
\* key is on the todo list leaves the list with its length and its other
\* entries, and the entry of the key with its name, range and depth and with
\* the parents of both, none twice.
C28_PendingMerged ==
  \A c \in DOMAIN calls :
    /\ \A i, j \in DOMAIN calls[c].todolist :
         calls[c].todolist[i]._id = calls[c].todolist[j]._id => i = j
    /\ \A p \in calls[c].pushes :
         Merges(p) # {} =>
           /\ Len(p.left) = Len(p.todo)
           /\ \A i \in DOMAIN p.todo :
                IF i \in Merges(p)
                THEN /\ p.left[i]._id = p.todo[i]._id
                     /\ p.left[i].name = p.todo[i].name
                     /\ p.left[i].range = p.todo[i].range
                     /\ p.left[i].depth = p.todo[i].depth
                     /\ Elements(p.left[i].parents) =
                          Elements(p.todo[i].parents) \cup Elements(p.spec.parents)
                     /\ NoDuplicates(p.left[i].parents)
                ELSE p.left[i] = p.todo[i]

\* C28 witness: a Module requested a key that the root had requested and that
\* was still on the todo list, at another depth, and the entry has both as
\* its parents.
C28_Witness ==
  \E c \in DOMAIN calls : \E p \in calls[c].pushes :
    \E i \in Merges(p) :
      /\ p.spec.depth # p.todo[i].depth
      /\ Len(p.left[i].parents) = 2
      /\ p.left[i].parents[1] = Root

\* C29: in the graph a call delivers on completion, every node that requested
\* a name with one range whose key has a Module in the tree has that Module
\* under the name in its dependencies map, also when the key had its Module
\* before the node requested it.
C29_LinkedOnCompletion ==
  \A c \in DOMAIN calls : \A n \in DOMAIN calls[c].callbacks :
    LET cb == calls[c].callbacks[n]
    IN  cb.err = Undefined =>
          \A p \in calls[c].pushes :
            LET P == p.spec.parents[1]
                map == IF P = Root THEN cb.root.map
                       ELSE cb.tree[P].dependencies.map
            IN  (/\ p.spec._id \in DOMAIN cb.tree
                 /\ P = Root \/ P \in DOMAIN cb.tree
                 /\ \A other \in calls[c].pushes :
                      (other.spec.parents[1] = P /\ other.spec.name = p.spec.name)
                        => other.spec._id = p.spec._id)
                  => /\ p.spec.name \in DOMAIN map
                     /\ map[p.spec.name] = p.spec._id

\* C29, what holds instead: the nodes that requested the key before it had
\* its Module have the Module under the name, unless they requested the name
\* with another range as well.
C29_LinkedWhenRequestedBefore ==
  \A c \in DOMAIN calls : \A n \in DOMAIN calls[c].callbacks :
    LET cb == calls[c].callbacks[n]
    IN  cb.err = Undefined =>
          \A p \in calls[c].pushes :
            LET P == p.spec.parents[1]
                map == IF P = Root THEN cb.root.map
                       ELSE cb.tree[P].dependencies.map
            IN  (/\ p.spec._id \in DOMAIN cb.tree
                 /\ ~p.resolved
                 /\ P = Root \/ P \in DOMAIN cb.tree
                 /\ \A other \in calls[c].pushes :
                      (other.spec.parents[1] = P /\ other.spec.name = p.spec.name)
                        => other.spec._id = p.spec._id)
                  => /\ p.spec.name \in DOMAIN map
                     /\ map[p.spec.name] = p.spec._id

\* C30: a call of optimize leaves in the dependents of the Module those that
\* have a candidate path, in the order they were in, and none of the others,
\* however many there are.
C30_RemovesThePathless ==
  \A i \in DOMAIN graph.runs :
    graph.runs[i].dependencytree[Subject].dependent =
      SelectSeq(DependentsBefore(i), LAMBDA d : HasPath(graph.q, d))

\* C30, what holds instead: the dependents with a candidate path stay in
\* their order, and of the dependents without one those stay that follow a
\* removed one at once.
C30_KeepsThoseWithPath ==
  \A i \in DOMAIN graph.runs :
    /\ SelectSeq(graph.runs[i].dependencytree[Subject].dependent,
                 LAMBDA d : HasPath(graph.q, d))
         = SelectSeq(DependentsBefore(i), LAMBDA d : HasPath(graph.q, d))
    /\ \A k \in DOMAIN DependentsBefore(i) :
         (k = 1 /\ ~HasPath(graph.q, DependentsBefore(i)[k]))
           => Len(graph.runs[i].dependencytree[Subject].dependent)
                < Len(DependentsBefore(i))

\* No entry of the dependencies map of a node has the name of the Subject
\* and another version.
NoOtherVersion(q, node) ==
  \A key \in DOMAIN NodeDependencies(q, node).map :
    LET entry == q.dependencytree[NodeDependencies(q, node).map[key]]
    IN  entry.name = q.dependencytree[Subject].name
          => entry.version = q.dependencytree[Subject].version

\* The parent properties from a node on lead from node to node.
ChainOfNodes(q, node) ==
  LET RECURSIVE Walk(_)
      Walk(ref) ==
        \/ NodeParent(q, ref) = NoRef
        \/ NodeParent(q, ref).kind = "node" /\ Walk(NodeParent(q, ref))
  IN  Walk(NodeRef(node))

\* The ancestors of a node up to the first whose dependencies map has the
\* name of the Subject with another version.
PrefixWithoutConflict(q, node) ==
  LET RECURSIVE Walk(_, _)
      Walk(ref, result) ==
        IF NodeParent(q, ref) = NoRef THEN result
        ELSE IF ~NoOtherVersion(q, NodeParent(q, ref).of) THEN result
        ELSE Walk(NodeParent(q, ref), Append(result, NodeParent(q, ref)))
  IN  Walk(NodeRef(node), <<>>)

\* C31: the parents optimize finds for a dependent are its ancestors up to
\* the first whose own dependencies map has an entry with the name of the
\* Module and another version.
C31_CandidatePath ==
  \A i \in DOMAIN graph.paths : \A k \in DOMAIN graph.paths[i] :
    LET call == graph.paths[i][k]
    IN  ChainOfNodes(graph.q, call.dep) =>
          call.parents = PrefixWithoutConflict(graph.q, call.dep)

\* C31, what holds instead: the parents are the ancestors up to the first
\* that is a Module of depth 0 or whose own parent property holds a Module
\* with the name of the Module and another version; the dependencies map of
\* an ancestor decides nothing.
C31_PathByProperties ==
  \A i \in DOMAIN graph.paths : \A k \in DOMAIN graph.paths[i] :
    LET call == graph.paths[i][k]
        q == graph.q
        Fits(ref) ==
          /\ ref.of # Root => q.dependencytree[ref.of].depth # 0
          /\ NodeParent(q, ref) # NoRef =>
               \/ NodeParent(q, ref).of = Root
               \/ q.dependencytree[NodeParent(q, ref).of].name
                    # q.dependencytree[Subject].name
               \/ q.dependencytree[NodeParent(q, ref).of].version
                    = q.dependencytree[Subject].version
    IN  ChainOfNodes(q, call.dep) =>
          /\ \A j \in DOMAIN call.parents : Fits(call.parents[j])
          /\ LET last == IF call.parents = <<>> THEN NodeRef(call.dep)
                         ELSE call.parents[Len(call.parents)]
             IN  NodeParent(q, last) # NoRef => ~Fits(NodeParent(q, last))

\* The queue before the i-th call of optimize.
QueueBefore(i) == IF i = 1 THEN graph.first ELSE graph.runs[i - 1]

\* C32: a call of optimize returns, and it leaves the todo list, the errors,
\* the root node, the keys of the tree and every Module as they were, but for
\* the dependent list of the Module it is called on, which stays under its
\* key with its version, depth, parents and dependencies map.
C32_OptimizeFrame ==
  \A i \in DOMAIN graph.runs :
    LET before == QueueBefore(i)
        after == graph.runs[i]
    IN  /\ after.state = before.state
        /\ after.todolist = before.todolist
        /\ after.errors = before.errors
        /\ after.data = before.data
        /\ DOMAIN after.dependencytree = DOMAIN before.dependencytree
        /\ \A id \in DOMAIN before.dependencytree :
             IF id = Subject
             THEN after.dependencytree[id] =
                    [before.dependencytree[id] EXCEPT
                       !.dependent = after.dependencytree[id].dependent]
             ELSE after.dependencytree[id] = before.dependencytree[id]

\* C32 witness: a call of optimize removed a dependent and left another, with
\* a spec on the todo list, an error listed and an entry in the root's map.
C32_Witness ==
  \E i \in DOMAIN graph.runs :
    /\ Len(graph.runs[i].dependencytree[Subject].dependent)
         < Len(QueueBefore(i).dependencytree[Subject].dependent)
    /\ graph.runs[i].dependencytree[Subject].dependent # <<>>
    /\ graph.runs[i].todolist # <<>>
    /\ graph.runs[i].errors # <<>>
    /\ graph.runs[i].data.dependencies.map # <<>>

\* The names a manifest has in both groups, as plain objects.
InBoth(pkg) ==
  IF type(pkg, "dependencies") = "object" /\ type(pkg, "devDependencies") = "object"
  THEN (DOMAIN pkg["dependencies"].map) \cap (DOMAIN pkg["devDependencies"].map)
  ELSE {}

\* C33: dedupe does not raise on a manifest whose groups are plain objects,
\* whatever the ranges: a name in both groups with a range that is no version
\* keeps its devDependencies entry, the names with two equal versions lose
\* theirs all the same, and the scan pushes every entry that is left.
C33_DedupeCatches ==
  \A n \in DOMAIN handed.out :
    LET out == handed.out[n]
        pkg == handed.pkg
    IN  (\A g \in DOMAIN pkg : type(pkg, g) = "object") =>
          /\ ~out.raised
          /\ out.q.state = "active"
          /\ ~production =>
               \A name \in InBoth(pkg) :
                 LET dep == pkg["dependencies"].map[name]
                     dev == pkg["devDependencies"].map[name]
                 IN  IF IsVersion(dep) /\ IsVersion(dev) /\ dep = dev
                     THEN name \notin DOMAIN out.pkg["devDependencies"].map
                     ELSE /\ name \in DOMAIN out.pkg["devDependencies"].map
                          /\ out.pkg["devDependencies"].map[name] = dev
                          /\ Id(name, dev) \in out.q.pushed

\* C33 witness: a manifest has two names in both groups, one with a range
\* that is no version and one with two equal versions; dedupe returned, the
\* first kept its devDependencies entry and the second lost it.
C33_Witness ==
  \E n \in DOMAIN handed.out :
    LET out == handed.out[n]
    IN  /\ ~out.raised
        /\ ~production
        /\ \E x, y \in InBoth(handed.pkg) :
             /\ ~IsVersion(handed.pkg["devDependencies"].map[x])
             /\ DOMAIN out.pkg["devDependencies"].map = {x}
             /\ y # x

\* The keys of the entries of the groups of a manifest that are plain objects
\* and are scanned in the production setting of the instance.
PlainKeys(pkg) ==
  {Id(e.name, e.range) : e \in Declared(Plain(pkg))}

\* C37: a group that is no plain object (an array, a string, a date, null)
\* gives the queue no spec, and the groups that are plain objects are scanned
\* all the same: the scan returns, and the specs it pushed are those of the
\* entries of the plain objects, less what dedupe removed.
C37_OnlyPlainObjects ==
  \A n \in DOMAIN handed.out :
    LET out == handed.out[n]
    IN  /\ ~out.raised
        /\ out.q.state = "active"
        /\ out.q.pushed = PlainKeys(out.pkg)
        /\ \A g \in DOMAIN handed.pkg :
             type(handed.pkg, g) # "object" => out.pkg[g] = handed.pkg[g]

\* C37, what holds instead: the scan raises only when a group is a string,
\* and when it returns it pushed the specs of the plain objects only.
C37_RaisesOnStrings ==
  \A n \in DOMAIN handed.out :
    LET out == handed.out[n]
    IN  IF out.raised
        THEN /\ \E g \in DOMAIN handed.pkg : type(handed.pkg, g) = "string"
             /\ ~production
             /\ out.q.pushed = {}
        ELSE out.q.pushed = PlainKeys(out.pkg)

\* The trees of a state: that of every queue, and those delivered.
Trees ==
  {calls[c].dependencytree : c \in DOMAIN calls}
    \cup UNION {{calls[c].callbacks[i].tree : i \in DOMAIN calls[c].callbacks} :
                 c \in DOMAIN calls}

\* The depth of a node, with 0 for the root.
DepthOf(tree, node) == IF node = Root THEN 0 ELSE tree[node].depth

\* C34: the depth of a Module is the depth of each of the nodes in its
\* parents plus one, with 0 for the root.
C34_DepthIsParentPlusOne ==
  \A tree \in Trees : \A id \in DOMAIN tree :
    \A i \in DOMAIN tree[id].parents :
      tree[id].parents[i] \in DOMAIN tree \cup {Root}
        => tree[id].depth = DepthOf(tree, tree[id].parents[i]) + 1

\* C34 amended: the depth of a Module is that of the first request of its
\* key: 0 when the first of its parents is the root, and the depth of that
\* parent plus one when it is a Module.
C34_DepthOfFirstRequest ==
  \A tree \in Trees : \A id \in DOMAIN tree :
    /\ tree[id].parents # <<>>
    /\ tree[id].parents[1] \in DOMAIN tree \cup {Root}
    /\ tree[id].depth = IF tree[id].parents[1] = Root THEN 0
                        ELSE tree[tree[id].parents[1]].depth + 1

\* C34 witness: a delivered Module has the root and a Module of depth 0 as
\* its parents and has depth 0, and another Module has depth 1.
C34_Witness ==
  /\ Delivered
  /\ \E id, other \in DOMAIN calls[1].callbacks[1].tree :
       LET tree == calls[1].callbacks[1].tree
       IN  /\ Len(tree[id].parents) = 2
           /\ tree[id].parents[1] = Root
           /\ tree[id].parents[2] # Root
           /\ tree[tree[id].parents[2]].depth = 0
           /\ tree[id].depth = 0
           /\ tree[other].depth = 1

C36_TagsAreCopies ==
  packages.name \in Names /\ packages.data.error = Undefined =>
    \A i \in DOMAIN packages.asked :
      LET range == packages.asked[i].range
          answer == packages.asked[i].answer
      IN  /\ range \in DOMAIN packages.data.tags =>
               /\ answer.found
               /\ answer.release =
                    [tag |-> range, name |-> packages.name,
                     version |-> VersionString(packages.data.tags[range])]
          /\ (\E v \in packages.data.versions : range = VersionString(v)) =>
               /\ answer.found
               /\ answer.release =
                    [tag |-> "", name |-> packages.name, version |-> range]

\* C36 witness: a tag and the version it points to were both asked for, and
\* the answers are the tagged and the untagged release of that version.
C36_Witness ==
  /\ packages.name \in Names
  /\ packages.data.error = Undefined
  /\ \E i, j \in DOMAIN packages.asked :
       LET tag == packages.asked[i].range
       IN  /\ tag \in DOMAIN packages.data.tags
           /\ packages.asked[j].range = VersionString(packages.data.tags[tag])
           /\ packages.asked[i].answer.release.tag = tag
           /\ packages.asked[j].answer.release.tag = ""
           /\ packages.asked[i].answer.release.version
                = packages.asked[j].answer.release.version

\* C38: of two resolve calls in progress on one instance neither is kept
\* from completing by the other: no call ends by raising, and a call that
\* has ended has looked up every key it requested.
C38_NeitherIsPrevented ==
  \A c \in DOMAIN calls :
    /\ calls[c].state # "thrown"
    /\ calls[c].state = "done" =>
         \A id \in calls[c].pushed : \E i \in DOMAIN calls[c].released :
           calls[c].released[i] = id

\* A resolve call raises only once the instance was destroyed by the
\* completion of another call.
C38_RaisesAfterACompletion ==
  \A c \in DOMAIN calls :
    calls[c].state = "thrown" =>
      /\ ~registry
      /\ \E d \in DOMAIN calls : d # c /\ calls[d].state = "done"

\* The tasks of a log that have a key.
TasksOf(log, id) == {i \in DOMAIN log : Id(log[i].name, log[i].range) = id}

\* The keys of the tasks the worker of ls was started with.
LsKeys == {Id(ls.worked[i].name, ls.worked[i].range) : i \in DOMAIN ls.worked}

\* C39: in the ls of the revision with async.queue the test for the key and
\* the registration of its record are one step per key: of the tasks with
\* one key registry.release is invoked for at most one, the record of the
\* key is written once, and when the queue has drained the parents of all
\* these tasks are in the record's dependent list.
C39_CriticalSectionPerKey ==
  \A id \in LsKeys :
    /\ Cardinality(TasksOf(ls.asked, id)) <= 1
    /\ Occurrences(ls.written, id) <= 1
    /\ ls.state = "drained" /\ id \in DOMAIN ls.dependency =>
         \A i \in TasksOf(ls.worked, id) :
           \E j \in DOMAIN ls.objects[ls.dependency[id]].dependent :
             ls.objects[ls.dependency[id]].dependent[j] = ls.worked[i].parent

\* With a queue of one task at a time a key the registry has a package for
\* is asked for once and its record is written once.
C39_OneTaskAtATime ==
  ls.limit = 1 =>
    \A id \in LsKeys :
      (\A i \in TasksOf(ls.worked, id) :
         ls.pkgs[ls.worked[i].name].error = Undefined) =>
        /\ Cardinality(TasksOf(ls.asked, id)) <= 1
        /\ Occurrences(ls.written, id) <= 1

====
